---- MODULE Spec2Model ----
(***************************************************************************)
(* Smart Contract Audit Bot: the ingestion pipeline (app/ingestion_sol.py), *)
(* the conversational orchestrator (app/chatbot_sol.py) and the settings    *)
(* loader (app/config.py).                                                  *)
(*                                                                          *)
(* Text is a sequence of lexemes (strings).  "\n\n" is the paragraph break   *)
(* and " " a blank; every other lexeme is a run of non-blank characters      *)
(* whose length TokLen gives.  The texts considered have paragraphs shorter  *)
(* than chunk_size, so the splitter never descends below its first           *)
(* separator.                                                                *)
(***************************************************************************)
EXTENDS Integers, Sequences, FiniteSets, TLC

(***************************************************************************)
(* Settings (app/config.py) and literals of the code.                       *)
(***************************************************************************)
chunk_size == 1000
chunk_overlap == 200
top_k_results == 5
FunctionsCap == 10
HistoryWindow == 10
HashModulus == 32768
RateLimit == 100
RateWindow == 3600
max_file_size == 10485760
allowed_file_extensions == {".sol", ".txt"}

(***************************************************************************)
(* Bounds of the model.                                                     *)
(***************************************************************************)
MaxFns == 12
MaxPars == 3
MaxTurns == 7
NumChatTasks == 2

NL2 == "\n\n"
SP == " "
Whitespace == {NL2, SP}

Visibility == {"public", "private", "internal", "external"}
Mutability == {"view", "pure", "payable"}
ParamLists == {"()", "(uint256 a)"}

FnName(i) == "f" \o ToString(i)
FnNames == {FnName(i) : i \in 1..(MaxFns + 1)}

(* The lexemes other than f1, f2, ..., each with its number of characters. *)
Lexicon ==
    << <<NL2, 2>>, <<SP, 1>>,
       <<"blob600", 600>>, <<"blob300", 300>>, <<"blob150", 150>>,
       <<"function", 8>>, <<"contract", 8>>, <<"returns", 7>>,
       <<"public", 6>>, <<"private", 7>>, <<"internal", 8>>,
       <<"external", 8>>, <<"view", 4>>, <<"pure", 4>>, <<"payable", 7>>,
       <<"()", 2>>, <<"(uint256 a)", 11>>, <<"{", 1>>, <<"}", 1>>,
       <<"(", 1>>, <<")", 1>>, <<";", 1>>, <<"+", 1>>, <<"-", 1>>,
       <<"Foo", 3>>, <<"Bar", 3>>, <<"x", 1>>, <<"q", 1>>,
       <<"pragma", 6>>, <<"solidity", 8>>, <<"^0.8.0", 6>>, <<"0.7.6", 5>>,
       <<"onlyOwner", 9>>, <<"ONLYOWNER", 9>>, <<"onlyAdmin", 9>>,
       <<"require", 7>>, <<"REQUIRE", 7>>, <<"msg.sender", 10>>,
       <<"nonReentrant", 12>>, <<"ReentrancyGuard", 15>>,
       <<"SafeMath", 8>>, <<".add(", 5>>, <<".sub(", 5>>, <<".mul(", 5>>,
       <<".div(", 5>>, <<".call(", 6>>, <<".delegatecall(", 14>>,
       <<".staticcall(", 12>>, <<"block.timestamp", 15>>, <<"now", 3>>,
       <<"block.difficulty", 16>>, <<"blockhash(", 10>>,
       <<"import", 6>>, <<"event", 5>>, <<"modifier", 8>> >>

LexIndex(tok) ==
    IF \E i \in 1..Len(Lexicon) : Lexicon[i][1] = tok
    THEN CHOOSE i \in 1..Len(Lexicon) : Lexicon[i][1] = tok
    ELSE 0

(* Number of characters of a lexeme: f1..f9 have two, f10 and up three. *)
TokLen(tok) ==
    IF LexIndex(tok) > 0 THEN Lexicon[LexIndex(tok)][2]
    ELSE IF tok \in {FnName(i) : i \in 1..9} THEN 2 ELSE 3

(* A code for each lexeme: what content.encode() feeds the digest. *)
TokCode(tok) ==
    IF LexIndex(tok) > 0 THEN LexIndex(tok)
    ELSE IF tok \in FnNames
    THEN 100 + (CHOOSE i \in 1..(MaxFns + 1) : tok = FnName(i))
    ELSE 99

(* \w+ : the lexemes made of word characters only. *)
NonWords ==
    {NL2, SP, "()", "(uint256 a)", "{", "}", "(", ")", ";", "+", "-",
     "^0.8.0", "0.7.6", "msg.sender", ".add(", ".sub(", ".mul(", ".div(",
     ".call(", ".delegatecall(", ".staticcall(", "block.timestamp",
     "block.difficulty", "blockhash("}

IsWord(tok) == tok \notin NonWords

(* The characters of lexemes lo..hi of the text. *)
RECURSIVE TextLenRange(_, _, _)
TextLenRange(text, lo, hi) ==
    IF lo > hi THEN 0
    ELSE IF lo = hi THEN TokLen(text[lo])
    ELSE TextLenRange(text, lo, (lo + hi) \div 2)
         + TextLenRange(text, (lo + hi) \div 2 + 1, hi)

(* len(text), in characters. *)
TextLen(text) == TextLenRange(text, 1, Len(text))

(* The concatenation of seqs[lo..hi]. *)
RECURSIVE FlattenRange(_, _, _)
FlattenRange(seqs, lo, hi) ==
    IF lo > hi THEN <<>>
    ELSE IF lo = hi THEN seqs[lo]
    ELSE FlattenRange(seqs, lo, (lo + hi) \div 2)
         \o FlattenRange(seqs, (lo + hi) \div 2 + 1, hi)

Flatten(seqs) == FlattenRange(seqs, 1, Len(seqs))

(* str.strip(): leading and trailing blanks removed. *)
RECURSIVE FirstNonBlank(_, _)
FirstNonBlank(text, i) ==
    IF i <= Len(text) /\ text[i] \in Whitespace
    THEN FirstNonBlank(text, i + 1) ELSE i

RECURSIVE LastNonBlank(_, _)
LastNonBlank(text, j) ==
    IF j >= 1 /\ text[j] \in Whitespace THEN LastNonBlank(text, j - 1) ELSE j

Strip(text) ==
    SubSeq(text, FirstNonBlank(text, 1), LastNonBlank(text, Len(text)))

(* The first index >= i holding a lexeme of `set`, or Len(text) + 1. *)
IndexIn(text, i, set) ==
    LET at == {j \in i..Len(text) : text[j] \in set} \cup {Len(text) + 1}
    IN  CHOOSE j \in at : \A k \in at : j <= k

IndexOf(text, i, tok) == IndexIn(text, i, {tok})

(***************************************************************************)
(* SolidityParser.extract_metadata.                                         *)
(***************************************************************************)
RECURSIVE SkipWs(_, _)
SkipWs(text, i) ==
    IF i <= Len(text) /\ text[i] \in Whitespace THEN SkipWs(text, i + 1) ELSE i

(* An optional lexeme of `set` at i: the index after it. *)
SkipOpt(text, i, set) ==
    IF i <= Len(text) /\ text[i] \in set THEN i + 1 ELSE i

(* (?:returns\s*\([^)]*\))? at i: the index after it. *)
SkipReturns(text, i) ==
    IF i <= Len(text) /\ text[i] = "returns"
    THEN LET j == SkipWs(text, i + 1)
         IN  IF j <= Len(text) /\ text[j] \in ParamLists THEN j + 1 ELSE i
    ELSE i

(* function_pattern matched at lexeme i: the index after the match, 0 when
   the pattern does not match there. *)
MatchFunctionAt(text, i) ==
    IF ~(i <= Len(text) /\ text[i] = "function") THEN 0
    ELSE LET n == SkipWs(text, i + 1)
         IN  IF n = i + 1 \/ n > Len(text) \/ ~IsWord(text[n]) THEN 0
             ELSE LET p == SkipWs(text, n + 1)
                  IN  IF p > Len(text) \/ text[p] \notin ParamLists THEN 0
                      ELSE LET v == SkipOpt(text, SkipWs(text, p + 1), Visibility)
                               m == SkipOpt(text, SkipWs(text, v), Mutability)
                               r == SkipReturns(text, SkipWs(text, m))
                               b == SkipWs(text, r)
                           IN  IF b <= Len(text) /\ text[b] = "{" THEN b + 1 ELSE 0

(* function_pattern.findall(content) from lexeme i on. *)
RECURSIVE FindFunctions(_, _)
FindFunctions(text, i) ==
    LET k == IndexOf(text, i, "function")
        e == MatchFunctionAt(text, k)
    IN  IF k > Len(text) THEN <<>>
        ELSE IF e > 0
        THEN <<text[SkipWs(text, k + 1)]>> \o FindFunctions(text, e)
        ELSE FindFunctions(text, k + 1)

(* contract_pattern, contract\s+(\w+).*?\{ , matched at lexeme i: the index
   after the match, 0 when it does not match there. *)
MatchContractAt(text, i) ==
    IF ~(i <= Len(text) /\ text[i] = "contract") THEN 0
    ELSE LET n == SkipWs(text, i + 1)
         IN  IF n = i + 1 \/ n > Len(text) \/ ~IsWord(text[n]) THEN 0
             ELSE IF IndexOf(text, n + 1, "{") > Len(text) THEN 0
             ELSE IndexOf(text, n + 1, "{") + 1

RECURSIVE FindContracts(_, _)
FindContracts(text, i) ==
    LET k == IndexOf(text, i, "contract")
        e == MatchContractAt(text, k)
    IN  IF k > Len(text) THEN <<>>
        ELSE IF e > 0
        THEN <<text[SkipWs(text, k + 1)]>> \o FindContracts(text, e)
        ELSE FindContracts(text, k + 1)

(* pragma\s+solidity\s+([^;]+); matched at lexeme i: the lexemes between
   "solidity" and the first ";" open with a blank character and hold at
   least one more character. *)
MatchPragmaAt(text, i) ==
    /\ i <= Len(text) /\ text[i] = "pragma"
    /\ SkipWs(text, i + 1) > i + 1
    /\ SkipWs(text, i + 1) <= Len(text)
    /\ text[SkipWs(text, i + 1)] = "solidity"
    /\ LET s == SkipWs(text, i + 1)
           e == IndexOf(text, s + 1, ";")
       IN  /\ e <= Len(text)
           /\ e > s + 1
           /\ text[s + 1] \in Whitespace
           /\ TextLenRange(text, s + 1, e - 1) >= 2

(* A search that keeps the last match instead of the first. *)
RECURSIVE FindPragmaLast(_, _)
FindPragmaLast(text, i) ==
    LET k == IndexOf(text, i, "pragma")
        s == SkipWs(text, k + 1)
        later == FindPragmaLast(text, k + 1)
    IN  IF k > Len(text) THEN [found |-> FALSE, value |-> <<>>]
        ELSE IF later.found THEN later
        ELSE IF MatchPragmaAt(text, k)
        THEN [found |-> TRUE,
              value |-> Strip(SubSeq(text, s + 1,
                                     IndexOf(text, s + 1, ";") - 1))]
        ELSE [found |-> FALSE, value |-> <<>>]

(* re.search: the leftmost match; group(1).strip(), <<>> for the empty
   string.  None when nothing matches. *)
RECURSIVE FindPragma(_, _)
FindPragma(text, i) ==
    LET k == IndexOf(text, i, "pragma")
        s == SkipWs(text, k + 1)
    IN  IF k > Len(text) THEN [found |-> FALSE, value |-> <<>>]
        ELSE IF MatchPragmaAt(text, k)
        THEN [found |-> TRUE,
              value |-> Strip(SubSeq(text, s + 1,
                                     IndexOf(text, s + 1, ";") - 1))]
        ELSE FindPragma(text, k + 1)

extract_metadata(content) ==
    [contracts |-> FindContracts(content, 1),
     functions |-> FindFunctions(content, 1),
     pragma |-> FindPragma(content, 1)]

(***************************************************************************)
(* SolidityParser.identify_security_patterns (re.IGNORECASE).               *)
(***************************************************************************)
(* str.lower() of the lexemes that come in several spellings. *)
Lower(tok) ==
    CASE tok \in {"onlyOwner", "ONLYOWNER"} -> "onlyowner"
      [] tok = "onlyAdmin" -> "onlyadmin"
      [] tok = "REQUIRE" -> "require"
      [] tok = "nonReentrant" -> "nonreentrant"
      [] tok = "ReentrancyGuard" -> "reentrancyguard"
      [] tok = "SafeMath" -> "safemath"
      [] OTHER -> tok

HasLexeme(text, set) == \E i \in 1..Len(text) : Lower(text[i]) \in set

(* The same search without re.IGNORECASE for the word "require". *)
HasRequireSenderCased(text) ==
    \E i \in 1..Len(text) :
        /\ text[i] = "require"
        /\ SkipWs(text, i + 1) <= Len(text)
        /\ text[SkipWs(text, i + 1)] = "("
        /\ SkipWs(text, SkipWs(text, i + 1) + 1) <= Len(text)
        /\ text[SkipWs(text, SkipWs(text, i + 1) + 1)] = "msg.sender"

(* require\s*\(\s*msg\.sender somewhere in the text. *)
HasRequireSender(text) ==
    \E i \in 1..Len(text) :
        /\ Lower(text[i]) = "require"
        /\ SkipWs(text, i + 1) <= Len(text)
        /\ text[SkipWs(text, i + 1)] = "("
        /\ SkipWs(text, SkipWs(text, i + 1) + 1) <= Len(text)
        /\ text[SkipWs(text, SkipWs(text, i + 1) + 1)] = "msg.sender"

(* require\s*\([^)]*<op> somewhere in the text: `op` before any ")". *)
HasRequireOp(text, op) ==
    \E i \in 1..Len(text) :
        /\ Lower(text[i]) = "require"
        /\ SkipWs(text, i + 1) <= Len(text)
        /\ text[SkipWs(text, i + 1)] = "("
        /\ LET p == SkipWs(text, i + 1)
           IN  /\ IndexOf(text, p + 1, op) <= Len(text)
               /\ IndexOf(text, p + 1, op) < IndexOf(text, p + 1, ")")
               /\ \A j \in (p + 1)..(IndexOf(text, p + 1, op) - 1) :
                     text[j] # "(uint256 a)" /\ text[j] # "()"

(* now\s : "now" followed by a blank. *)
HasNowBlank(text) ==
    \E i \in 1..(Len(text) - 1) :
        Lower(text[i]) = "now" /\ text[i + 1] \in Whitespace

PatternNames ==
    <<"reentrancy_guard", "access_control", "safe_math", "external_calls",
      "time_dependency", "randomness", "overflow_checks">>

PatternFound(name, text) ==
    CASE name = "reentrancy_guard" ->
            HasLexeme(text, {"nonreentrant", "reentrancyguard"})
      [] name = "access_control" ->
            HasLexeme(text, {"onlyowner", "onlyadmin"}) \/ HasRequireSender(text)
      [] name = "safe_math" ->
            HasLexeme(text, {"safemath", ".add(", ".sub(", ".mul(", ".div("})
      [] name = "external_calls" ->
            HasLexeme(text, {".call(", ".delegatecall(", ".staticcall("})
      [] name = "time_dependency" ->
            HasLexeme(text, {"block.timestamp"}) \/ HasNowBlank(text)
      [] name = "randomness" ->
            HasLexeme(text, {"block.difficulty", "blockhash("})
      [] name = "overflow_checks" ->
            HasRequireOp(text, "+") \/ HasRequireOp(text, "-")

identify_security_patterns(content) ==
    SelectSeq(PatternNames, LAMBDA name : PatternFound(name, content))

(***************************************************************************)
(* ContractIngestionService.generate_file_hash: a digest of the content.    *)
(***************************************************************************)
(* 31^k modulo the digest width. *)
RECURSIVE Pow31(_)
Pow31(k) ==
    IF k = 0 THEN 1
    ELSE LET h == Pow31(k \div 2)
         IN  (((h * h) % HashModulus) * (IF k % 2 = 1 THEN 31 ELSE 1))
             % HashModulus

(* The digest of lexemes lo..hi: each lexeme in turn multiplies the running
   value by 31 and adds its code. *)
RECURSIVE Digest(_, _, _)
Digest(text, lo, hi) ==
    IF lo > hi THEN 0
    ELSE IF lo = hi THEN TokCode(text[lo])
    ELSE LET mid == (lo + hi) \div 2
         IN  (Digest(text, lo, mid) * Pow31(hi - mid)
              + Digest(text, mid + 1, hi)) % HashModulus

generate_file_hash(content) ==
    (7 * Pow31(Len(content)) + Digest(content, 1, Len(content))) % HashModulus

(***************************************************************************)
(* RecursiveCharacterTextSplitter(chunk_size, chunk_overlap,                *)
(* separators = ["\n\n", "\n", " ", ""]).split_text.                         *)
(***************************************************************************)
(* The text cut before every "\n\n", the separator kept at the start of the
   piece it opens; an empty first piece is dropped. *)
SplitPieces(text) ==
    LET starts == {i \in 1..Len(text) : i = 1 \/ text[i] = NL2}
        n == Cardinality(starts)
        start(k) == CHOOSE s \in starts :
                        Cardinality({t \in starts : t < s}) = k - 1
        end(k) == IF k = n THEN Len(text) ELSE start(k + 1) - 1
    IN  [k \in 1..n |-> SubSeq(text, start(k), end(k))]

(* _join_docs: the pieces joined and stripped; <<>> stands for None. *)
JoinDocs(cur) == Strip(Flatten(cur))

(* The popping loop of _merge_splits: pieces leave the front of the current
   document while it is longer than the overlap, or too long to take the
   next piece. *)
RECURSIVE PopFront(_, _, _)
PopFront(cur, total, len) ==
    IF total > chunk_overlap \/ (total + len > chunk_size /\ total > 0)
    THEN PopFront(SubSeq(cur, 2, Len(cur)), total - TextLen(cur[1]), len)
    ELSE [cur |-> cur, total |-> total]

RECURSIVE MergeSplits(_, _, _, _, _)
MergeSplits(splits, i, docs, cur, total) ==
    IF i > Len(splits)
    THEN IF JoinDocs(cur) # <<>> THEN Append(docs, JoinDocs(cur)) ELSE docs
    ELSE LET d == splits[i]
             len == TextLen(d)
         IN  IF total + len > chunk_size /\ cur # <<>>
             THEN LET out == IF JoinDocs(cur) # <<>>
                             THEN Append(docs, JoinDocs(cur)) ELSE docs
                      kept == PopFront(cur, total, len)
                  IN  MergeSplits(splits, i + 1, out,
                                  Append(kept.cur, d), kept.total + len)
             ELSE MergeSplits(splits, i + 1, docs, Append(cur, d), total + len)

split_text(content) ==
    MergeSplits(SplitPieces(content), 1, <<>>, <<>>, 0)

(* The texts of the model: every paragraph shorter than chunk_size. *)
InDomain(content) ==
    \A i \in 1..Len(SplitPieces(content)) :
        TextLen(SplitPieces(content)[i]) < chunk_size

(***************************************************************************)
(* State.                                                                   *)
(***************************************************************************)
VARIABLES
    vector_store,    \* ContractIngestionService.vector_store is set
    index_exists,    \* the Pinecone index of the configured name exists
    store,           \* the vectors of the index, in insertion order
    ingest_call,     \* the ingest_contract call made last: its arguments,
                     \* whether an earlier call with this content returned
                     \* "ingested", and the store it found
    ingest_result,   \* what it returned or raised
    ingested         \* the contents for which a call returned "ingested"

ingestVars ==
    <<vector_store, index_exists, store, ingest_call, ingest_result, ingested>>

(* The collaborator call that fails during an operation, if any. *)
InitFaults == {"list_indexes", "create_index", "connect"}
StoreFaults == {"search", "add"}

(***************************************************************************)
(* ContractIngestionService.process_contract_file.                          *)
(***************************************************************************)
(* A slice that keeps the whole list. *)
Untruncated(seq, n) == seq

(* seq[:n] *)
Take(seq, n) == SubSeq(seq, 1, IF Len(seq) < n THEN Len(seq) ELSE n)

doc_metadata(file_path, file_hash, metadata, security_patterns, chunks, i) ==
    [file_path |-> file_path,
     file_hash |-> file_hash,
     chunk_index |-> i - 1,
     total_chunks |-> Len(chunks),
     contracts |-> metadata.contracts,
     functions |-> Take(metadata.functions, FunctionsCap),
     security_patterns |-> security_patterns,
     pragma |-> metadata.pragma,
     content_type |-> "solidity_contract"]

process_contract_file(file_path, content) ==
    LET metadata == extract_metadata(content)
        security_patterns == identify_security_patterns(content)
        file_hash == generate_file_hash(content)
        chunks == split_text(content)
        documents ==
            [i \in 1..Len(chunks) |->
                [content |-> chunks[i],
                 metadata |-> doc_metadata(file_path, file_hash, metadata,
                                           security_patterns, chunks, i)]]
    IN  [success |-> TRUE,
         file_path |-> file_path,
         file_hash |-> file_hash,
         chunks_count |-> Len(chunks),
         metadata |-> metadata,
         security_patterns |-> security_patterns,
         documents |-> documents]

(***************************************************************************)
(* Contract texts.                                                          *)
(***************************************************************************)
FnDecl(i) == <<"function", SP, FnName(i), "()", SP, "{", "}">>

RECURSIVE FnDecls(_, _)
FnDecls(i, n) == IF i > n THEN <<>> ELSE FnDecl(i) \o <<SP>> \o FnDecls(i + 1, n)

(* A contract declaring functions f1..fn, followed by `tail`. *)
Contract(n, tail) ==
    <<"contract", SP, "Foo", SP, "{", SP>> \o FnDecls(1, n) \o <<"}">> \o tail

IngestContents ==
    { <<>>,
      <<SP>>,
      Contract(1, <<>>),
      Contract(1, <<NL2, "blob600", NL2, "blob150", NL2, "blob600">>) }

FilePaths == {"A.sol", "B.sol"}

(* analyze_contract_security: f"temp_analysis_{datetime.now().timestamp()}.sol" *)
TempPath(now) == "temp_analysis_" \o ToString(now) \o ".sol"
TempPaths == {TempPath(now) : now \in 1..2}

(* process_contract_file on the texts of the model, evaluated once. *)
Processed ==
    [file_path \in FilePaths \cup TempPaths, content \in IngestContents |->
        process_contract_file(file_path, content)]

(***************************************************************************)
(* The vector-store collaborator.                                           *)
(***************************************************************************)
(* The stored vectors a metadata filter on file_hash lets through. *)
FilterByHash(docs, h) ==
    SelectSeq(docs, LAMBDA d : d.metadata.file_hash = h)

(* similarity_search(query, k): the k most similar of `docs`, or all of them
   when there are fewer; which ones and in which order the embedding decides. *)
similarity_search(docs, k) ==
    LET m == IF Len(docs) < k THEN Len(docs) ELSE k
    IN  { [i \in 1..m |-> docs[f[i]]] :
            f \in { g \in [1..m -> 1..Len(docs)] :
                      \A a, b \in 1..m : a # b => g[a] # g[b] } }

(* An upsert keyed by file path: the vectors of the same file are replaced. *)
add_texts_by_path(docs, new) ==
    SelectSeq(docs, LAMBDA d :
        \A i \in 1..Len(new) : new[i].metadata.file_path # d.metadata.file_path)
    \o new

(* An upsert under ids made of the file hash and the chunk index: a chunk
   that is already stored is written over. *)
add_texts_by_hash(docs, new) ==
    SelectSeq(docs, LAMBDA d :
        \A i \in 1..Len(new) :
            \/ new[i].metadata.file_hash # d.metadata.file_hash
            \/ new[i].metadata.chunk_index # d.metadata.chunk_index)
    \o new

(* add_texts(texts, metadatas): every text gets a fresh id, so the vectors
   are added to those already there. *)
add_texts(docs, new) == docs \o new

(***************************************************************************)
(* ContractIngestionService.initialize_vector_store under `fault`.          *)
(***************************************************************************)
(* An initialisation that sets vector_store before it connects. *)
initialize_setting_first(exists, fault) ==
    IF fault = "list_indexes"
    THEN [raised |-> TRUE, index_exists |-> exists, vector_store |-> FALSE]
    ELSE IF ~exists /\ fault = "create_index"
    THEN [raised |-> TRUE, index_exists |-> exists, vector_store |-> FALSE]
    ELSE IF fault = "connect"
    THEN [raised |-> TRUE, index_exists |-> TRUE, vector_store |-> TRUE]
    ELSE [raised |-> FALSE, index_exists |-> TRUE, vector_store |-> TRUE]

initialize_vector_store(exists, fault) ==
    IF fault = "list_indexes"
    THEN [raised |-> TRUE, index_exists |-> exists, vector_store |-> FALSE]
    ELSE IF ~exists /\ fault = "create_index"
    THEN [raised |-> TRUE, index_exists |-> exists, vector_store |-> FALSE]
    ELSE IF fault = "connect"
    THEN [raised |-> TRUE, index_exists |-> TRUE, vector_store |-> FALSE]
    ELSE [raised |-> FALSE, index_exists |-> TRUE, vector_store |-> TRUE]

(***************************************************************************)
(* ContractIngestionService.ingest_contract.                                *)
(***************************************************************************)
Raised(msg) == [outcome |-> "raised", value |-> [error |-> msg]]
Returned(dict) == [outcome |-> "returned", value |-> dict]

NoCall ==
    [file_path |-> "", content |-> <<>>, fault |-> "none", seen |-> FALSE,
     store |-> <<>>]
NoResult == [outcome |-> "none", value |-> [error |-> ""]]

(* The result of the call and the store it leaves, once the vector store is
   set: `existing` is what the existence check found, `upto` the number of
   vectors a failing add_texts had already written. *)
ingest_after_init(file_path, result, fault, existing, upto) ==
        IF fault = "search"
        THEN [store |-> store,
              result |-> Returned([success |-> FALSE,
                                   error |-> "Failed to ingest contract"])]
        ELSE IF existing # <<>>
        THEN [store |-> store,
              result |-> Returned([success |-> TRUE,
                                   message |-> "Contract already exists in database",
                                   file_hash |-> result.file_hash,
                                   action |-> "skipped"])]
        ELSE IF fault = "add"
        THEN [store |-> add_texts(store, SubSeq(result.documents, 1, upto)),
              result |-> Returned([success |-> FALSE,
                                   error |-> "Failed to ingest contract"])]
        ELSE [store |-> add_texts(store, result.documents),
              result |-> Returned([success |-> TRUE,
                                   message |-> "Contract successfully ingested",
                                   file_path |-> file_path,
                                   file_hash |-> result.file_hash,
                                   chunks_added |-> Len(result.documents),
                                   metadata |-> result.metadata,
                                   security_patterns |->
                                       result.security_patterns,
                                   action |-> "ingested"])]

IsIngested(r) ==
    r.outcome = "returned" /\ r.value.success /\ r.value.action = "ingested"

ingest_contract(file_path, content, fault) ==
    LET init == IF vector_store
                THEN [raised |-> FALSE, index_exists |-> index_exists,
                      vector_store |-> TRUE]
                ELSE initialize_vector_store(index_exists, fault)
        result == Processed[file_path, content]
    IN  /\ fault \in InitFaults => ~vector_store
        /\ fault = "create_index" => ~index_exists
        /\ ingest_call' = [file_path |-> file_path, content |-> content,
                           fault |-> fault, seen |-> content \in ingested,
                           store |-> store]
        /\ index_exists' = init.index_exists
        /\ vector_store' = init.vector_store
        /\ IF init.raised
           THEN /\ ingest_result' = Raised("Failed to initialize vector store")
                /\ UNCHANGED <<store, ingested>>
           ELSE \E existing \in
                     similarity_search(FilterByHash(store, result.file_hash), 1),
                   upto \in 0..Len(result.documents) :
                    LET out == ingest_after_init(file_path, result, fault,
                                                 existing, upto)
                    IN  /\ fault = "add" => existing = <<>>
                        /\ fault # "add" => upto = 0
                        /\ store' = out.store
                        /\ ingest_result' = out.result
                        /\ ingested' = IF IsIngested(out.result)
                                       THEN ingested \cup {content}
                                       ELSE ingested

(***************************************************************************)
(* ContractIngestionService.search_contracts under `fault`: what it does to *)
(* the service and the result lists it may return.                          *)
(***************************************************************************)
search_contracts(k, fault) ==
    LET init == IF vector_store
                THEN [raised |-> FALSE, index_exists |-> index_exists,
                      vector_store |-> TRUE]
                ELSE initialize_vector_store(index_exists, fault)
    IN  [index_exists |-> init.index_exists,
         vector_store |-> init.vector_store,
         raised |-> init.raised \/ fault = "search",
         results |->
            IF init.raised \/ fault = "search" THEN {<<>>}
            ELSE { [i \in 1..Len(docs) |->
                       [content |-> docs[i].content,
                        metadata |-> docs[i].metadata]] :
                   docs \in similarity_search(store, k) }]

(***************************************************************************)
(* SmartContractAuditBot: prompts.                                          *)
(***************************************************************************)
system_prompt == <<"You are an expert Smart Contract Security Auditor">>
NoContext == <<"No relevant contract context found in the database.">>
ErrorContext == <<"Error retrieving context: ">>

SystemMessage(content) == [role |-> "system", content |-> content]
HumanMessage(content) == [role |-> "human", content |-> content]
AIMessage(content) == [role |-> "ai", content |-> content]

(* text.replace(tok, repl) *)
Replace(text, tok, repl) ==
    Flatten([i \in 1..Len(text) |->
                IF text[i] = tok THEN repl ELSE <<text[i]>>])

(* An escape that doubles the opening brace only. *)
EscapeOpening(text) == Replace(text, "{", <<"{", "{">>)

(* text.replace("{", "{{").replace("}", "}}") *)
Escape(text) ==
    Replace(Replace(text, "{", <<"{", "{">>), "}", <<"}", "}">>)

(* sep.join(items), every item one lexeme. *)
Join(items, sep) ==
    Flatten([i \in 1..Len(items) |->
                IF i = 1 THEN <<items[i]>> ELSE <<sep, items[i]>>])

(* SmartContractAuditBot._create_audit_prompt: the two templates. *)
create_audit_prompt(user_query, context) ==
    LET safe_user_query == Escape(user_query)
        safe_context == Escape(context)
    IN  [system |-> system_prompt
                    \o <<"\n\nRELEVANT CONTRACT CONTEXT:\n">>
                    \o safe_context
                    \o <<"\n\nBased on the above context and your expertise">>,
         human |-> <<"User Query: ", "{", "query", "}",
                     "\n\nPlease analyze the provided smart contract context">>]

(* str.format of an f-string template with the one variable `query`:
   "{{" and "}}" are literal braces, "{query}" is replaced by the value, and
   a lone brace, an unclosed field or any other field name is an error. *)
RECURSIVE FormatFrom(_, _, _)
FormatFrom(template, i, query) ==
    LET b == IndexIn(template, i, {"{", "}"})
        literal == SubSeq(template, i, b - 1)
        doubled == b < Len(template) /\ template[b + 1] = template[b]
        e == IndexOf(template, b + 1, "}")
    IN  IF b > Len(template) THEN [ok |-> TRUE, text |-> literal]
        ELSE IF doubled
        THEN LET rest == FormatFrom(template, b + 2, query)
             IN  [ok |-> rest.ok,
                  text |-> literal \o <<template[b]>> \o rest.text]
        ELSE IF template[b] = "}" \/ e > Len(template)
                \/ SubSeq(template, b + 1, e - 1) # <<"query">>
        THEN [ok |-> FALSE, text |-> <<>>]
        ELSE LET rest == FormatFrom(template, e + 1, query)
             IN  [ok |-> rest.ok, text |-> literal \o query \o rest.text]

(* ChatPromptTemplate.format_messages(query = ...): the system and the human
   message, or a failure. *)
format_messages(prompt, query) ==
    LET sys == FormatFrom(prompt.system, 1, query)
        hum == FormatFrom(prompt.human, 1, query)
    IN  IF sys.ok /\ hum.ok
        THEN [ok |-> TRUE,
              messages |-> <<SystemMessage(sys.text), HumanMessage(hum.text)>>]
        ELSE [ok |-> FALSE, messages |-> <<>>]

(***************************************************************************)
(* SmartContractAuditBot.get_relevant_context.                              *)
(***************************************************************************)
context_part(i, result) ==
    <<"\n--- Contract Context ", ToString(i), " ---\nFile: ",
      result.metadata.file_path, "\nContracts: ">>
    \o Join(result.metadata.contracts, ", ")
    \o <<"\nFunctions: ">>
    \o Join(Take(result.metadata.functions, 5), ", ")
    \o <<"\nSecurity Patterns: ">>
    \o Join(result.metadata.security_patterns, ", ")
    \o <<"\n\nCode:\n">> \o result.content \o <<"\n">>

get_relevant_context(raised, search_results) ==
    IF raised THEN ErrorContext
    ELSE IF search_results = <<>> THEN NoContext
    ELSE Flatten([i \in 1..Len(search_results) |->
                    IF i = 1 THEN context_part(i, search_results[i])
                    ELSE <<"\n">> \o context_part(i, search_results[i])])

(***************************************************************************)
(* SmartContractAuditBot.chat: up to the completion request, and from the   *)
(* collaborator's answer on.                                                *)
(***************************************************************************)
VARIABLES
    conversation_history,  \* SmartContractAuditBot.conversation_history
    chat_pc,               \* per chat task: "idle" or "awaiting" the completion
    chat_call,             \* per task: the call's arguments, how the
                           \* retrieval went and the context it gave
    full_messages,         \* per task: the request the collaborator holds
    chat_result,           \* per task: what the call returned
    bot_op                 \* the chatbot method that ran last

chatVars ==
    <<conversation_history, chat_pc, chat_call, full_messages, chat_result,
      bot_op>>

ChatTasks == 1..NumChatTasks

(* A test that takes the "no context" sentence for a context. *)
ContextNonEmpty(context) == context # <<>>

(* context and context != "No relevant contract context found ..." *)
ContextUsed(context) == context # <<>> /\ context # NoContext

(* The whole history: a window that is never cut. *)
WholeHistory(history, n) == history

(* conversation_history[-n:] *)
LastN(history, n) ==
    SubSeq(history, IF Len(history) > n THEN Len(history) - n + 1 ELSE 1,
           Len(history))

(* The messages of the new turn: [ok, messages]. *)
messages_to_send(user_message, context) ==
    IF ContextUsed(context)
    THEN format_messages(create_audit_prompt(user_message, context),
                         user_message)
    ELSE [ok |-> TRUE,
          messages |-> <<SystemMessage(system_prompt),
                         HumanMessage(user_message)>>]

ChatFailure == [success |-> FALSE, error |-> "Chat failed"]
NoChatResult == [success |-> FALSE, error |-> "no result yet"]

(* A call that logs the user's message before it sends the request. *)
logged_on_request(history, user_message) ==
    Append(history, HumanMessage(user_message))

(* What chat has added to the history when it sends the request: nothing,
   both appends come after the completion. *)
history_on_request(history, user_message) == history

chat_start(t, user_message, include_context, fault) ==
    LET search == IF include_context
                  THEN search_contracts(top_k_results, fault)
                  ELSE [index_exists |-> index_exists,
                        vector_store |-> vector_store,
                        raised |-> FALSE, results |-> {<<>>}]
    IN  /\ chat_pc[t] = "idle"
        /\ fault # "none" => include_context
        /\ fault \in InitFaults => ~vector_store
        /\ fault = "create_index" => ~index_exists
        /\ index_exists' = search.index_exists
        /\ vector_store' = search.vector_store
        /\ \E search_results \in search.results :
              LET context == IF include_context
                             THEN get_relevant_context(search.raised,
                                                       search_results)
                             ELSE <<>>
                  new == messages_to_send(user_message, context)
              IN  /\ chat_call' =
                        [chat_call EXCEPT ![t] =
                            [user_message |-> user_message,
                             include_context |-> include_context,
                             retrieval |->
                                IF ~include_context THEN "skipped"
                                ELSE IF search.raised THEN "raised"
                                ELSE IF search_results = <<>> THEN "empty"
                                ELSE "found",
                             context |-> context,
                             sent |-> new.ok,
                             completion |-> "none"]]
                  /\ IF new.ok
                     THEN /\ full_messages' =
                                [full_messages EXCEPT ![t] =
                                    LastN(conversation_history, HistoryWindow)
                                    \o new.messages]
                          /\ chat_pc' = [chat_pc EXCEPT ![t] = "awaiting"]
                          /\ chat_result' = [chat_result EXCEPT ![t] = NoChatResult]
                     ELSE /\ full_messages' = [full_messages EXCEPT ![t] = <<>>]
                          /\ chat_pc' = chat_pc
                          /\ chat_result' = [chat_result EXCEPT ![t] = ChatFailure]
        /\ bot_op' = "chat"
        /\ conversation_history' =
              history_on_request(conversation_history, user_message)
        /\ UNCHANGED store

(* The history with the turn appended in the opposite order. *)
append_turn_reply_first(history, user_message, response) ==
    history \o <<response, HumanMessage(user_message)>>

(* The two appends that follow a completion. *)
append_turn(history, user_message, response) ==
    history \o <<HumanMessage(user_message), response>>

(* The completion collaborator answers with `response`, or fails. *)
chat_complete(t, failed, response) ==
    /\ chat_pc[t] = "awaiting"
    /\ chat_pc' = [chat_pc EXCEPT ![t] = "idle"]
    /\ chat_call' = [chat_call EXCEPT ![t].completion =
                        IF failed THEN "failed" ELSE "answered"]
    /\ bot_op' = "chat"
    /\ IF failed
       THEN /\ chat_result' = [chat_result EXCEPT ![t] = ChatFailure]
            /\ UNCHANGED conversation_history
       ELSE /\ conversation_history' =
                  append_turn(conversation_history,
                              chat_call[t].user_message, response)
            /\ chat_result' =
                  [chat_result EXCEPT ![t] =
                      [success |-> TRUE,
                       response |-> response.content,
                       context_used |-> ContextUsed(chat_call[t].context)]]
    /\ full_messages' = [full_messages EXCEPT ![t] = <<>>]
    /\ UNCHANGED <<vector_store, index_exists, store>>

(* A reset that keeps the turn recorded last. *)
clear_but_last_turn ==
    /\ conversation_history' = LastN(conversation_history, 2)
    /\ bot_op' = "clear_conversation"
    /\ UNCHANGED <<chat_pc, chat_call, full_messages, chat_result,
                   vector_store, index_exists, store>>

(* SmartContractAuditBot.clear_conversation *)
clear_conversation ==
    /\ conversation_history' = <<>>
    /\ bot_op' = "clear_conversation"
    /\ UNCHANGED <<chat_pc, chat_call, full_messages, chat_result,
                   vector_store, index_exists, store>>

(***************************************************************************)
(* config.py: the settings of the process.                                  *)
(***************************************************************************)
VARIABLES
    environ,              \* the two required variables of the environment
    _settings,            \* config._settings
    get_settings_result   \* what the last get_settings call returned or raised

configVars == <<environ, _settings, get_settings_result>>

None == [none |-> TRUE]

(* What a required variable may hold; "" is also what Settings gives to a
   variable that is not set. *)
KeyValues == {"", "sk-a", "sk-b"}

(* Settings(): the fields are read from the environment at construction. *)
Settings ==
    [openai_api_key |-> environ.OPENAI_API_KEY,
     pinecone_api_key |-> environ.PINECONE_API_KEY]

(* validate_configuration: the names it reports missing; it raises when
   there is one. *)
missing_keys(settings_instance) ==
    (IF settings_instance.openai_api_key = ""
     THEN <<"OPENAI_API_KEY">> ELSE <<>>)
    \o (IF settings_instance.pinecone_api_key = ""
        THEN <<"PINECONE_API_KEY">> ELSE <<>>)

get_settings ==
    IF _settings = None
    THEN /\ _settings' = Settings
         /\ get_settings_result' =
               IF missing_keys(Settings) # <<>>
               THEN Raised(missing_keys(Settings))
               ELSE Returned(Settings)
    ELSE /\ _settings' = _settings
         /\ get_settings_result' = Returned(_settings)

(***************************************************************************)
(* The audit prompt applied to a query and a context.                       *)
(***************************************************************************)
VARIABLES
    prompt_input,     \* the user query and the context
    prompt_messages   \* format_messages' outcome on them, once it has run

promptVars == <<prompt_input, prompt_messages>>

MaxPromptLen == 3
MaxPatternLen == 4
MaxStatements == 4
MaxStored == 3
MaxChats == 3
MaxChecks == 5
MaxClock == 7200
MaxInits == 3
MaxBatch == 3
PromptLexemes == {"{", "}", "query", "a"}

RECURSIVE SeqsUpTo(_, _)
SeqsUpTo(set, n) ==
    IF n = 0 THEN {<<>>}
    ELSE LET shorter == SeqsUpTo(set, n - 1)
         IN  shorter \cup { Append(t, x) : t \in shorter, x \in set }

PromptTexts == SeqsUpTo(PromptLexemes, MaxPromptLen)

(* prompt = _create_audit_prompt(user_message, context);
   prompt.format_messages(query = user_message) *)
format_audit_prompt ==
    prompt_messages' =
        format_messages(create_audit_prompt(prompt_input.user_query,
                                            prompt_input.context),
                        prompt_input.user_query)

(***************************************************************************)
(* process_contract_file applied to a contract text.                        *)
(***************************************************************************)
VARIABLES
    process_input,    \* the file path, the content and the number of
                      \* functions the content declares
    process_result    \* what process_contract_file returned for them

processVars == <<process_input, process_result>>

Paragraphs == {"blob600", "blob300", "blob150"}

(* The paragraphs `pars`, each after a blank line. *)
TailOf(pars) == Flatten([i \in 1..Len(pars) |-> <<NL2, pars[i]>>])

(***************************************************************************)
(* SolidityParser applied to a text.                                        *)
(***************************************************************************)
VARIABLES
    parser_input,     \* the text, and what is known of how it was written
    parser_result     \* what the parser returned for it

parserVars == <<parser_input, parser_result>>

(***************************************************************************)
(* ingest_contract called by several workers on the one index: the calls of *)
(* a worker follow each other, those of different workers reach the index   *)
(* in any order, one collaborator request at a time.                        *)
(***************************************************************************)
VARIABLES
    ingest_pc,        \* per worker: "idle", or "checked" once the existence
                      \* check of its call has found nothing
    worker_call,      \* per worker: the arguments of its call, and whether
                      \* its check found nothing while another call for the
                      \* same content was between its check and its insert
    worker_result     \* per worker: what its last call returned

workerVars == <<ingest_pc, worker_call, worker_result>>

Workers == {"w1", "w2"}

(* ingest_contract up to the existence check (lines 192-210). *)
ingest_check(w, file_path, content, fault) ==
    LET result == Processed[file_path, content]
    IN  /\ ingest_pc[w] = "idle"
        /\ vector_store
        /\ \E existing \in
                similarity_search(FilterByHash(store, result.file_hash), 1) :
              /\ worker_call' =
                    [worker_call EXCEPT ![w] =
                        [file_path |-> file_path, content |-> content,
                         raced |-> /\ fault = "none"
                                   /\ existing = <<>>
                                   /\ \E o \in Workers \ {w} :
                                        /\ ingest_pc[o] = "checked"
                                        /\ worker_call[o].content = content]]
              /\ IF fault = "search" \/ existing # <<>>
                 THEN /\ worker_result' =
                            [worker_result EXCEPT ![w] =
                                ingest_after_init(file_path, result, fault,
                                                  existing, 0).result]
                      /\ ingest_pc' = ingest_pc
                 ELSE /\ worker_result' =
                            [worker_result EXCEPT ![w] = NoResult]
                      /\ ingest_pc' = [ingest_pc EXCEPT ![w] = "checked"]
        /\ UNCHANGED <<vector_store, index_exists, store>>

(* ingest_contract from the insert on (lines 212-231); a failing add_texts
   had written `upto` vectors. *)
ingest_insert(w, fault, upto) ==
    LET result == Processed[worker_call[w].file_path, worker_call[w].content]
        out == ingest_after_init(worker_call[w].file_path, result, fault,
                                 <<>>, upto)
    IN  /\ ingest_pc[w] = "checked"
        /\ upto \in 0..Len(result.documents)
        /\ fault # "add" => upto = 0
        /\ store' = out.store
        /\ worker_result' = [worker_result EXCEPT ![w] = out.result]
        /\ ingest_pc' = [ingest_pc EXCEPT ![w] = "idle"]
        /\ UNCHANGED <<vector_store, index_exists, worker_call>>

WorkersAtRest ==
    /\ ingest_pc = [w \in Workers |-> "idle"]
    /\ worker_call = [w \in Workers |->
                        [file_path |-> "", content |-> <<>>, raced |-> FALSE]]
    /\ worker_result = [w \in Workers |-> NoResult]

(***************************************************************************)
(* chat calls in flight together on the one audit_bot.                      *)
(***************************************************************************)
VARIABLES
    chat_started,     \* the number of chat calls begun so far
    chat_no,          \* per task: the number of its call, in order of begin
    chat_completed    \* the numbers of the calls that have succeeded since
                      \* the history was last cleared, in order of completion

chatRunVars == <<chat_started, chat_no, chat_completed>>

(* The message of the k-th call and the reply the model gives to it. *)
UserMessageNo(k) == <<"m" \o ToString(k)>>
ReplyTo(user_message) == AIMessage(<<"re">> \o user_message)

ChatRunAtRest ==
    /\ chat_started = 0
    /\ chat_no = [t \in ChatTasks |-> 0]
    /\ chat_completed = <<>>

(***************************************************************************)
(* main.py: check_rate_limit.                                               *)
(***************************************************************************)
VARIABLES
    clock,            \* datetime.now().timestamp(), in seconds
    request_counts,   \* main.request_counts: client -> list of timestamps
    rate_result,      \* the last check: its client and what it returned
    allowed,          \* per client: the timestamps of the checks that
                      \* returned True, all of them, in order
    checks_made       \* the number of checks made since the initial state

rateVars == <<clock, request_counts, rate_result, allowed, checks_made>>

Clients == {"10.0.0.1", "10.0.0.2"}

(* A test that lets the list grow one past the limit. *)
limit_exceeded(times) == Len(times) > RateLimit

(* len(request_counts[client_ip]) >= 100 *)
limit_reached(times) == Len(times) >= RateLimit

(* The list of a client, [] when the client is not in the dict yet. *)
times_of(client_ip) ==
    IF client_ip \in DOMAIN request_counts THEN request_counts[client_ip]
    ELSE <<>>

(* A limiter that records the refused requests too. *)
check_rate_limit_recording(client_ip) ==
    LET current_time == clock
        hour_ago == current_time - RateWindow
        kept == SelectSeq(times_of(client_ip),
                          LAMBDA req_time : req_time > hour_ago)
        ok == ~limit_reached(kept)
    IN  /\ request_counts' =
              (client_ip :> Append(kept, current_time)) @@ request_counts
        /\ rate_result' = [client |-> client_ip, ok |-> ok]
        /\ allowed' = IF ok
                      THEN [allowed EXCEPT ![client_ip] = Append(@, current_time)]
                      ELSE allowed
        /\ UNCHANGED clock

check_rate_limit(client_ip) ==
    LET current_time == clock
        hour_ago == current_time - RateWindow
        kept == SelectSeq(times_of(client_ip),
                          LAMBDA req_time : req_time > hour_ago)
        ok == ~limit_reached(kept)
        times == IF ok THEN Append(kept, current_time) ELSE kept
    IN  /\ request_counts' = (client_ip :> times) @@ request_counts
        /\ rate_result' = [client |-> client_ip, ok |-> ok]
        /\ allowed' = IF ok
                      THEN [allowed EXCEPT ![client_ip] = Append(@, current_time)]
                      ELSE allowed
        /\ UNCHANGED clock

(* The dict after n checks of the client at time 0, all of them allowed. *)
Checked(n) == [i \in 1..n |-> 0]

RateAtRest ==
    /\ clock = 0
    /\ request_counts = << >>
    /\ rate_result = [client |-> "", ok |-> TRUE]
    /\ allowed = [c \in Clients |-> <<>>]
    /\ checks_made = 0

(***************************************************************************)
(* main.py: the endpoints.                                                  *)
(***************************************************************************)
VARIABLES
    api_request,    \* the request served last, the store it found, and
                    \* whether its handler called ingest_contract
    api_response    \* the response to it: its status, and the status of the
                    \* HTTPException raised in the handler's try block, if any

apiVars == <<api_request, api_response>>

HTTPException(status_code) == [raised |-> TRUE, status_code |-> status_code]
NoException == [raised |-> FALSE, status_code |-> 200]

(* os.path.splitext(filename)[1] of a name given as its root followed by
   its extension, if it has one. *)
splitext_ext(filename) ==
    IF Len(filename) > 1 THEN filename[Len(filename)] ELSE ""

(* str.lower() on the extensions of the model. *)
lower(ext) ==
    IF ext = ".EXE" THEN ".exe" ELSE IF ext = ".SOL" THEN ".sol" ELSE ext

(* The file name as one string. *)
NameOf(filename) ==
    IF Len(filename) > 1 THEN filename[1] \o filename[2] ELSE filename[1]

(* A validation that looks at the extension only. *)
validate_extension(file) ==
    IF lower(splitext_ext(file.filename)) \notin allowed_file_extensions
    THEN HTTPException(400)
    ELSE NoException

(* validate_file: the exception it raises, if any. *)
validate_file(file) ==
    IF file.size > max_file_size THEN HTTPException(413)
    ELSE IF lower(splitext_ext(file.filename)) \notin allowed_file_extensions
    THEN HTTPException(400)
    ELSE NoException

(* The response when `exc` was raised in the try block: `except Exception`
   catches it and raises HTTPException(500) in its place. *)
Caught(exc) == [status |-> 500, raised |-> exc.status_code]
Response(status) == [status |-> status, raised |-> 0]

NoRequest ==
    [endpoint |-> "", file |-> None, query |-> <<>>, store |-> <<>>,
     ingest_called |-> FALSE]

(* POST /upload *)
upload_contract(file, fault) ==
    LET invalid == validate_file(file)
        called == ~invalid.raised /\ file.utf8
    IN  /\ api_request' = [endpoint |-> "upload", file |-> file,
                           query |-> <<>>, store |-> store,
                           ingest_called |-> called]
        /\ IF invalid.raised
           THEN /\ api_response' = Caught(invalid)
                /\ UNCHANGED ingestVars
           ELSE IF ~file.utf8
           THEN /\ api_response' = Response(400)
                /\ UNCHANGED ingestVars
           ELSE /\ ingest_contract(NameOf(file.filename), file.content, fault)
                /\ api_response' =
                      IF ingest_result'.outcome = "raised" THEN Response(500)
                      ELSE IF ingest_result'.value.success THEN Response(200)
                      ELSE Caught(HTTPException(400))

(* GET /search *)
search_endpoint(query, k, fault) ==
    /\ api_request' = [endpoint |-> "search", file |-> None, query |-> query,
                       store |-> store, ingest_called |-> FALSE]
    /\ IF Strip(query) = <<>>
       THEN /\ api_response' = Caught(HTTPException(400))
            /\ UNCHANGED ingestVars
       ELSE LET s == search_contracts(k, fault)
            IN  /\ fault \in InitFaults => ~vector_store
                /\ index_exists' = s.index_exists
                /\ vector_store' = s.vector_store
                /\ api_response' =
                      IF s.raised THEN Response(500) ELSE Response(200)
                /\ UNCHANGED <<store, ingest_call, ingest_result, ingested>>

ApiAtRest ==
    /\ api_request = NoRequest
    /\ api_response = Response(200)

(***************************************************************************)
(* SmartContractAuditBot.analyze_contract_security.                         *)
(***************************************************************************)
VARIABLES
    analysis_call,    \* the analysis made last: its content and the store
                      \* it found
    analysis_result   \* what it returned

analysisVars == <<analysis_call, analysis_result>>

(* The ingestion, then retrieval, prompt and completion, which leave the
   service as it is once the vector store is set; `failing` says that
   format_messages or the completion raises. *)
analyze_contract_security(contract_content, now, fault, failing) ==
    LET temp_file_path == TempPath(now)
    IN  /\ ingest_contract(temp_file_path, contract_content, fault)
        /\ analysis_call' = [content |-> contract_content, store |-> store]
        /\ analysis_result' =
              IF ingest_result'.outcome = "raised"
              THEN Raised(ingest_result'.value.error)
              ELSE IF failing
              THEN Returned([success |-> FALSE, error |-> "Analysis failed"])
              ELSE Returned([success |-> TRUE,
                             contract_hash |->
                                 generate_file_hash(contract_content)])

AnalysisAtRest ==
    /\ analysis_call = [content |-> <<>>, store |-> <<>>]
    /\ analysis_result = NoResult

(***************************************************************************)
(* The service as its callers use it: every operation with the collaborator *)
(* calls it issues.                                                         *)
(***************************************************************************)
VARIABLES
    service_op,   \* the operation made last: its name, the collaborator call
                  \* that failed in it, whether the vector store was set and
                  \* the index existed when it began, and whether it raised
    issued,       \* the collaborator calls it issued, in order
    inits         \* how each initialize_vector_store so far has ended

serviceVars == <<service_op, issued, inits>>

NoOp ==
    [name |-> "", fault |-> "none", was_set |-> FALSE, existed |-> FALSE,
     raised |-> FALSE]

(* The collaborator calls of initialize_vector_store. *)
initialize_calls(exists, fault) ==
    IF fault = "list_indexes" THEN <<"list_indexes">>
    ELSE IF ~exists /\ fault = "create_index"
    THEN <<"list_indexes", "create_index">>
    ELSE IF ~exists THEN <<"list_indexes", "create_index", "connect">>
    ELSE <<"list_indexes", "connect">>

(* `if not self.vector_store: await self.initialize_vector_store()` *)
lazy_init(fault) ==
    IF vector_store
    THEN [attempted |-> FALSE, raised |-> FALSE, calls |-> <<>>]
    ELSE [attempted |-> TRUE,
          raised |-> initialize_vector_store(index_exists, fault).raised,
          calls |-> initialize_calls(index_exists, fault)]

Outcome(init) ==
    IF ~init.attempted THEN <<>>
    ELSE IF init.raised THEN <<"failed">> ELSE <<"ok">>

Began(name, fault, raised) ==
    [name |-> name, fault |-> fault, was_set |-> vector_store,
     existed |-> index_exists, raised |-> raised]

(* ingest_contract *)
service_ingest(file_path, content, fault) ==
    LET init == lazy_init(fault)
    IN  /\ ingest_contract(file_path, content, fault)
        /\ service_op' = Began("ingest", fault,
                                ingest_result'.outcome = "raised")
        /\ inits' = inits \o Outcome(init)
        /\ issued' = init.calls \o
              (IF init.raised THEN <<>>
               ELSE IF fault = "search"
                       \/ (ingest_result'.value.success
                           /\ ingest_result'.value.action = "skipped")
               THEN <<"similarity_search">>
               ELSE <<"similarity_search", "add_texts">>)

(* search_contracts *)
service_search(k, fault) ==
    LET init == lazy_init(fault)
        s == search_contracts(k, fault)
    IN  /\ fault \in InitFaults => ~vector_store
        /\ fault = "create_index" => ~index_exists
        /\ index_exists' = s.index_exists
        /\ vector_store' = s.vector_store
        /\ service_op' = Began("search", fault, s.raised)
        /\ inits' = inits \o Outcome(init)
        /\ issued' = init.calls \o
              (IF init.raised THEN <<>> ELSE <<"similarity_search">>)
        /\ UNCHANGED <<store, ingest_call, ingest_result, ingested>>

(* get_contract_stats: the initialisation may raise; a failure of
   describe_index_stats is returned as {"error": ...}. *)
get_contract_stats(fault) ==
    LET init == lazy_init(fault)
        done == IF vector_store
                THEN [raised |-> FALSE, index_exists |-> index_exists,
                      vector_store |-> TRUE]
                ELSE initialize_vector_store(index_exists, fault)
    IN  /\ fault \in InitFaults => ~vector_store
        /\ fault = "create_index" => ~index_exists
        /\ index_exists' = done.index_exists
        /\ vector_store' = done.vector_store
        /\ service_op' = Began("stats", fault, done.raised)
        /\ inits' = inits \o Outcome(init)
        /\ issued' = init.calls \o
              (IF init.raised THEN <<>> ELSE <<"describe_index_stats">>)
        /\ UNCHANGED <<store, ingest_call, ingest_result, ingested>>

(* startup_event: initialize_vector_store, whatever vector_store is; the
   exception is raised again. *)
startup_event(fault) ==
    LET done == initialize_vector_store(index_exists, fault)
    IN  /\ fault = "create_index" => ~index_exists
        /\ index_exists' = done.index_exists
        /\ vector_store' = (done.vector_store \/ vector_store)
        /\ service_op' = Began("startup", fault, done.raised)
        /\ inits' = Append(inits, IF done.raised THEN "failed" ELSE "ok")
        /\ issued' = initialize_calls(index_exists, fault)
        /\ UNCHANGED <<store, ingest_call, ingest_result, ingested>>

ServiceAtRest ==
    /\ service_op = NoOp
    /\ issued = <<>>
    /\ inits = <<>>

(***************************************************************************)
(* ContractIngestionService.ingest_multiple_contracts: the call, and one    *)
(* turn of its loop.                                                        *)
(***************************************************************************)
VARIABLES
    batch_call,      \* the call made last: its contracts and the store it
                     \* found
    batch_pc,        \* the position of the loop in `contracts`, 0 when no
                     \* call is running
    results,         \* the list `results` of the call
    batch_outcome    \* "none", "running", "returned" or "raised"

batchVars == <<batch_call, batch_pc, results, batch_outcome>>

(* results = [] and the loop is entered; an empty list is returned at once. *)
ingest_multiple_contracts(contracts) ==
    /\ batch_pc = 0
    /\ batch_call' = [contracts |-> contracts, store |-> store]
    /\ results' = <<>>
    /\ batch_pc' = IF contracts = <<>> THEN 0 ELSE 1
    /\ batch_outcome' = IF contracts = <<>> THEN "returned" ELSE "running"
    /\ UNCHANGED ingestVars

(* One turn of the loop: the exception of ingest_contract is not caught, so
   it ends the call; otherwise the result is appended, and the list is
   returned after the last contract. *)
ingest_next_contract(fault) ==
    LET contract == batch_call.contracts[batch_pc]
        last == batch_pc = Len(batch_call.contracts)
    IN  /\ batch_pc > 0
        /\ ingest_contract(contract.file_path, contract.content, fault)
        /\ IF ingest_result'.outcome = "raised"
           THEN /\ batch_outcome' = "raised"
                /\ batch_pc' = 0
                /\ UNCHANGED results
           ELSE /\ results' = Append(results, ingest_result'.value)
                /\ batch_pc' = IF last THEN 0 ELSE batch_pc + 1
                /\ batch_outcome' = IF last THEN "returned" ELSE "running"
        /\ UNCHANGED batch_call

BatchAtRest ==
    /\ batch_call = [contracts |-> <<>>, store |-> <<>>]
    /\ batch_pc = 0
    /\ results = <<>>
    /\ batch_outcome = "none"

laterVars == <<apiVars, analysisVars, serviceVars, batchVars>>
LaterAtRest == ApiAtRest /\ AnalysisAtRest /\ ServiceAtRest /\ BatchAtRest

(* The state the later sections add. *)
restVars ==
    <<parserVars, workerVars, chatRunVars, rateVars, laterVars>>

ParserAtRest ==
    /\ parser_input = [content |-> <<>>, pragmas |-> <<>>]
    /\ parser_result = None

RestAtRest ==
    /\ ParserAtRest
    /\ WorkersAtRest
    /\ ChatRunAtRest
    /\ RateAtRest
    /\ LaterAtRest

(***************************************************************************)
(* The ingestion service in sequential use.                                 *)
(***************************************************************************)
vars ==
    <<ingestVars, chatVars, configVars, promptVars, processVars, restVars>>

IngestAtRest ==
    /\ vector_store = FALSE
    /\ ingest_call = NoCall
    /\ ingest_result = NoResult
    /\ ingested = {}

ChatAtRest ==
    /\ conversation_history = <<>>
    /\ chat_pc = [t \in ChatTasks |-> "idle"]
    /\ chat_call = [t \in ChatTasks |->
                      [user_message |-> <<>>, include_context |-> FALSE,
                       retrieval |-> "skipped", context |-> <<>>,
                       sent |-> FALSE, completion |-> "none"]]
    /\ full_messages = [t \in ChatTasks |-> <<>>]
    /\ chat_result = [t \in ChatTasks |-> NoChatResult]
    /\ bot_op = "none"

ConfigAtRest ==
    /\ environ = [OPENAI_API_KEY |-> "sk-a", PINECONE_API_KEY |-> "sk-a"]
    /\ _settings = None
    /\ get_settings_result = NoResult

PromptAtRest ==
    /\ prompt_input = [user_query |-> <<>>, context |-> <<>>]
    /\ prompt_messages = None

ProcessAtRest ==
    /\ process_input = [file_path |-> "", content |-> <<>>, declared |-> 0]
    /\ process_result = None

Init ==
    /\ IngestAtRest
    /\ index_exists \in BOOLEAN
    /\ store = <<>>
    /\ ChatAtRest
    /\ ConfigAtRest
    /\ PromptAtRest
    /\ ProcessAtRest
    /\ RestAtRest

IngestContract ==
    /\ \E file_path \in FilePaths, content \in IngestContents,
          fault \in {"none"} \cup InitFaults \cup StoreFaults :
            ingest_contract(file_path, content, fault)
    /\ UNCHANGED <<chatVars, configVars, promptVars, processVars, restVars>>

Next == IngestContract
Spec == Init /\ [][Next]_vars

(***************************************************************************)
(* The chatbot in sequential use: one chat at a time, over a store that     *)
(* earlier ingestion has left empty or filled.                              *)
(***************************************************************************)
UserMessages == { <<"q">>, <<"{", "x", "}">> }
Replies == { <<"a1">> }

ChatContract(n) ==
    IF n = 1 THEN <<"contract", SP, "Foo", SP, "{", "}">>
    ELSE <<"contract", SP, "Bar", SP, "{", SP, "function", SP, "f1", "()", SP,
           "{", "onlyOwner", "}", SP, "}">>

(* The stores ingestion leaves: empty, one contract, both contracts. *)
ChatStores ==
    { <<>>,
      process_contract_file("A.sol", ChatContract(1)).documents,
      process_contract_file("A.sol", ChatContract(1)).documents
        \o process_contract_file("B.sol", ChatContract(2)).documents }

ChatInit ==
    /\ IngestAtRest
    /\ index_exists = TRUE
    /\ store \in ChatStores
    /\ ChatAtRest
    /\ ConfigAtRest
    /\ PromptAtRest
    /\ ProcessAtRest
    /\ RestAtRest

ChatIdle == \A t \in ChatTasks : chat_pc[t] = "idle"

ChatStart ==
    /\ \E user_message \in UserMessages, include_context \in BOOLEAN,
          fault \in {"none", "search"} \cup InitFaults :
            /\ ChatIdle
            /\ Len(conversation_history) < 2 * MaxTurns
            /\ chat_start(1, user_message, include_context, fault)
    /\ UNCHANGED <<ingest_call, ingest_result, ingested,
                   configVars, promptVars, processVars, restVars>>

ChatComplete ==
    /\ \E failed \in BOOLEAN, reply \in Replies :
            chat_complete(1, failed, AIMessage(reply))
    /\ UNCHANGED <<ingest_call, ingest_result, ingested,
                   configVars, promptVars, processVars, restVars>>

ClearConversation ==
    /\ ChatIdle
    /\ clear_conversation
    /\ UNCHANGED <<ingest_call, ingest_result, ingested,
                   configVars, promptVars, processVars, restVars>>

ChatNext == ChatStart \/ ChatComplete \/ ClearConversation
SpecChat == ChatInit /\ [][ChatNext]_vars

(***************************************************************************)
(* The settings of a process whose environment may change between calls.    *)
(***************************************************************************)
ConfigInit ==
    /\ IngestAtRest
    /\ index_exists = TRUE
    /\ store = <<>>
    /\ ChatAtRest
    /\ environ \in [{"OPENAI_API_KEY", "PINECONE_API_KEY"} -> KeyValues]
    /\ _settings = None
    /\ get_settings_result = NoResult
    /\ PromptAtRest
    /\ ProcessAtRest
    /\ RestAtRest

GetSettings ==
    /\ get_settings
    /\ UNCHANGED <<environ, ingestVars, chatVars, promptVars, processVars,
                   restVars>>

SetEnviron ==
    /\ \E key \in DOMAIN environ, value \in KeyValues :
            environ' = [environ EXCEPT ![key] = value]
    /\ UNCHANGED <<_settings, get_settings_result,
                   ingestVars, chatVars, promptVars, processVars, restVars>>

ConfigNext == GetSettings \/ SetEnviron
SpecConfig == ConfigInit /\ [][ConfigNext]_vars

(***************************************************************************)
(* The audit prompt over the queries and contexts of PromptTexts.           *)
(***************************************************************************)
PromptInit ==
    /\ IngestAtRest
    /\ index_exists = TRUE
    /\ store = <<>>
    /\ ChatAtRest
    /\ ConfigAtRest
    /\ prompt_input \in [user_query : PromptTexts, context : PromptTexts]
    /\ prompt_messages = None
    /\ ProcessAtRest
    /\ RestAtRest

FormatAuditPrompt ==
    /\ format_audit_prompt
    /\ UNCHANGED <<prompt_input,
                   ingestVars, chatVars, configVars, processVars, restVars>>

PromptNext == FormatAuditPrompt
SpecPrompt == PromptInit /\ [][PromptNext]_vars

(***************************************************************************)
(* process_contract_file over contracts of up to MaxFns functions followed  *)
(* by up to MaxPars paragraphs.                                             *)
(***************************************************************************)
ProcessInputs ==
    { [file_path |-> file_path, content |-> Contract(n, TailOf(pars)),
       declared |-> n] :
        file_path \in FilePaths, n \in 0..MaxFns,
        pars \in SeqsUpTo(Paragraphs, MaxPars) }

ProcessInit ==
    /\ IngestAtRest
    /\ index_exists = TRUE
    /\ store = <<>>
    /\ ChatAtRest
    /\ ConfigAtRest
    /\ PromptAtRest
    /\ process_input \in { in \in ProcessInputs : InDomain(in.content) }
    /\ process_result = None
    /\ RestAtRest

ProcessContractFile ==
    /\ process_result' =
          process_contract_file(process_input.file_path, process_input.content)
    /\ UNCHANGED <<process_input,
                   ingestVars, chatVars, configVars, promptVars, restVars>>

ProcessNext == ProcessContractFile
SpecProcess == ProcessInit /\ [][ProcessNext]_vars

(***************************************************************************)
(* Properties of the ingestion service.                                     *)
(***************************************************************************)
IsPrefix(a, b) == Len(a) <= Len(b) /\ SubSeq(b, 1, Len(a)) = a

Succeeded(r) == r.outcome = "returned" /\ r.value.success

(* C1: once ingest_contract(content) has returned "ingested", every later
   call with the same content that the collaborator does not fail returns
   "skipped" and leaves the store as it was; content whose hash is not in
   the store is reported "ingested" with that hash. *)
C1_SecondIngestSkipped ==
    Succeeded(ingest_result) =>
        /\ ingest_call.seen =>
              /\ ingest_result.value.action = "skipped"
              /\ store = ingest_call.store
        /\ FilterByHash(ingest_call.store,
                        generate_file_hash(ingest_call.content)) = <<>> =>
              /\ ingest_result.value.action = "ingested"
              /\ ingest_result.value.file_hash
                    = generate_file_hash(ingest_call.content)

(* C6: ingest_contract never raises: whichever collaborator call fails, it
   returns a result with success False and an error string. *)
C6_IngestNeverRaises ==
    /\ ingest_result.outcome # "raised"
    /\ ingest_call.fault # "none" =>
          /\ ingest_result.outcome = "returned"
          /\ ~ingest_result.value.success
          /\ "error" \in DOMAIN ingest_result.value

(* C9: an ingest_contract call only adds vectors: the store it found is
   still there, unchanged and in place, when it returns or raises. *)
C9_IngestOnlyAdds == IsPrefix(ingest_call.store, store)

(* C9, its case: a new version of a file has been ingested while the chunks
   of the earlier version are in the store. *)
C9_Witness ==
    /\ IsIngested(ingest_result)
    /\ Len(store) > Len(ingest_call.store)
    /\ \E i \in 1..Len(ingest_call.store) :
          /\ store[i].metadata.file_path = ingest_call.file_path
          /\ store[i].metadata.file_hash
                # generate_file_hash(ingest_call.content)

(***************************************************************************)
(* Properties of the chatbot.                                               *)
(***************************************************************************)
(* C2: a chat call that returns success == True has appended exactly two
   entries to conversation_history, the user's message and then the model's
   reply; after clear_conversation the history has length 0. *)
C2_TwoEntriesPerChat ==
    /\ [][\A t \in ChatTasks :
            (chat_pc[t] = "awaiting" /\ chat_pc'[t] = "idle"
               /\ chat_result'[t].success) =>
                conversation_history' =
                    conversation_history
                    \o <<HumanMessage(chat_call[t].user_message),
                         AIMessage(chat_result'[t].response)>>]_vars
    /\ [](bot_op = "clear_conversation" => Len(conversation_history) = 0)

(* C2, its case: the history was reset after a chat had succeeded. *)
C2_Witness ==
    /\ bot_op = "clear_conversation"
    /\ \E t \in ChatTasks : chat_result[t].success

(* C3: the request of a chat call is the last 10 entries of the history, or
   all of them when there are fewer, in their order, followed by the system
   and the user message of the new turn; and a chat call never removes an
   entry of conversation_history. *)
C3_RequestWindow ==
    [][/\ bot_op' = "chat" =>
              IsPrefix(conversation_history, conversation_history')
       /\ \A t \in ChatTasks :
            (chat_pc[t] = "idle" /\ chat_pc'[t] = "awaiting") =>
                LET n == Len(full_messages'[t]) - 2
                    h == Len(conversation_history)
                IN  /\ n = IF h > HistoryWindow THEN HistoryWindow ELSE h
                    /\ SubSeq(full_messages'[t], 1, n)
                          = SubSeq(conversation_history, h - n + 1, h)
                    /\ full_messages'[t][n + 1].role = "system"
                    /\ full_messages'[t][n + 2].role = "human"
                    /\ conversation_history' = conversation_history]_vars

(* C3, its case: a request is in flight while the history holds more than
   10 entries. *)
C3_Witness ==
    \E t \in ChatTasks :
        /\ chat_pc[t] = "awaiting"
        /\ Len(conversation_history) > HistoryWindow
        /\ Len(full_messages[t]) = HistoryWindow + 2

(* C4: when the search returns nothing, the chat call still sends a request,
   whose new turn is the base system prompt and the raw user message, and a
   successful completion is reported with context_used == False. *)
C4_EmptyStoreStillCompletes ==
    \A t \in ChatTasks :
        chat_call[t].retrieval = "empty" =>
            /\ chat_call[t].sent
            /\ chat_pc[t] = "awaiting" =>
                  SubSeq(full_messages[t], Len(full_messages[t]) - 1,
                         Len(full_messages[t]))
                    = <<SystemMessage(system_prompt),
                        HumanMessage(chat_call[t].user_message)>>
            /\ (chat_pc[t] = "idle" /\ chat_call[t].completion = "answered") =>
                  /\ chat_result[t].success
                  /\ ~chat_result[t].context_used

(* C4, its case: a chat over the empty store has completed. *)
C4_Witness ==
    \E t \in ChatTasks :
        /\ store = <<>>
        /\ chat_call[t].retrieval = "empty"
        /\ chat_call[t].completion = "answered"

(* C5: a chat call whose retrieval or whose completion failed returns
   success == False together with an error message. *)
C5_FailuresReturnFailure ==
    \A t \in ChatTasks :
        (chat_pc[t] = "idle"
           /\ (chat_call[t].retrieval = "raised"
                 \/ chat_call[t].completion = "failed")) =>
            /\ ~chat_result[t].success
            /\ "error" \in DOMAIN chat_result[t]

(***************************************************************************)
(* Properties of the settings.                                              *)
(***************************************************************************)
(* C7: get_settings only returns a validated instance: a call made while the
   instance it holds has an empty openai_api_key or pinecone_api_key raises,
   and an instance it returns has both keys. *)
C7_OnlyValidatedSettings ==
    /\ (get_settings_result.outcome # "none"
          /\ missing_keys(_settings) # <<>>) =>
            get_settings_result.outcome = "raised"
    /\ get_settings_result.outcome = "returned" =>
            /\ get_settings_result.value.openai_api_key # ""
            /\ get_settings_result.value.pinecone_api_key # ""

(***************************************************************************)
(* Properties of the audit prompt.                                          *)
(***************************************************************************)
(* C8: for any query and any context, braces included, formatting the audit
   prompt does not fail and gives a system message that holds the context
   as it was given, between the heading and the closing instruction, and a
   human message that holds the query as it was given. *)
C8_PromptRoundTrip ==
    prompt_messages # None =>
        /\ prompt_messages.ok
        /\ Len(prompt_messages.messages) = 2
        /\ LET sys == prompt_messages.messages[1]
               hum == prompt_messages.messages[2]
               context == prompt_input.context
               query == prompt_input.user_query
               at == Len(system_prompt) + 1
           IN  /\ sys.role = "system"
               /\ Len(sys.content) = Len(system_prompt) + 2 + Len(context)
               /\ SubSeq(sys.content, 1, Len(system_prompt)) = system_prompt
               /\ SubSeq(sys.content, at + 1, at + Len(context)) = context
               /\ hum.role = "human"
               /\ Len(hum.content) = 2 + Len(query)
               /\ hum.content[1] = "User Query: "
               /\ SubSeq(hum.content, 2, 1 + Len(query)) = query

(* C8, its case: a prompt was formatted whose context holds something that
   reads as a placeholder and whose query holds braces. *)
C8_Witness ==
    /\ prompt_messages # None
    /\ prompt_input.context = <<"{", "query", "}">>
    /\ prompt_input.user_query = <<"}", "a", "{">>

(***************************************************************************)
(* Properties of process_contract_file.                                     *)
(***************************************************************************)
(* C10: for a content that splits into n chunks the result has n documents;
   document i (from 0) has chunk_index i and total_chunks n, every document
   has the hash of the whole content, and its functions are the first 10, at
   most, of the full list of declared functions, which the metadata of the
   result keeps whole. *)
C10_DocumentsOfChunks ==
    process_result # None =>
        LET n == Len(split_text(process_input.content))
            docs == process_result.documents
            declared == [i \in 1..process_input.declared |-> FnName(i)]
        IN  /\ Len(docs) = n
            /\ process_result.metadata.functions = declared
            /\ process_result.file_hash =
                  generate_file_hash(process_input.content)
            /\ \A i \in 1..n :
                  /\ docs[i].metadata.chunk_index = i - 1
                  /\ docs[i].metadata.total_chunks = n
                  /\ docs[i].metadata.file_hash = process_result.file_hash
                  /\ Len(docs[i].metadata.functions) <= FunctionsCap
                  /\ Len(docs[i].metadata.functions) =
                        (IF process_input.declared < FunctionsCap
                         THEN process_input.declared ELSE FunctionsCap)
                  /\ IsPrefix(docs[i].metadata.functions, declared)

(* C10, its case: a content of more than 10 functions that splits into
   several chunks was processed. *)
C10_Witness ==
    /\ process_result # None
    /\ process_input.declared > FunctionsCap
    /\ Len(process_result.documents) >= 3

(***************************************************************************)
(* identify_security_patterns over the texts of PatternTexts.               *)
(***************************************************************************)
PatternLexemes ==
    {"onlyOwner", "ONLYOWNER", "onlyAdmin", "require", "REQUIRE", "(",
     "msg.sender", SP, "x"}

PatternTexts == SeqsUpTo(PatternLexemes, MaxPatternLen)

PatternsInit ==
    /\ IngestAtRest
    /\ index_exists = TRUE
    /\ store = <<>>
    /\ ChatAtRest
    /\ ConfigAtRest
    /\ PromptAtRest
    /\ ProcessAtRest
    /\ WorkersAtRest
    /\ ChatRunAtRest
    /\ RateAtRest
    /\ LaterAtRest
    /\ parser_input \in [content : PatternTexts, pragmas : {<<>>}]
    /\ parser_result = None

IdentifySecurityPatterns ==
    /\ parser_result' =
          [patterns |-> identify_security_patterns(parser_input.content)]
    /\ UNCHANGED <<parser_input, ingestVars, chatVars, configVars,
                   promptVars, processVars, workerVars, chatRunVars, rateVars, laterVars>>

PatternsNext == IdentifySecurityPatterns
SpecPatterns == PatternsInit /\ [][PatternsNext]_vars

(***************************************************************************)
(* Properties of identify_security_patterns.                                *)
(***************************************************************************)
InSeq(x, seq) == \E i \in 1..Len(seq) : seq[i] = x

(* The text holds, in any letter case, the word onlyOwner. *)
HoldsOnlyOwner(text) ==
    \E i \in 1..Len(text) : text[i] \in {"onlyOwner", "ONLYOWNER"}

(* The text holds onlyAdmin. *)
HoldsOnlyAdmin(text) == \E i \in 1..Len(text) : text[i] = "onlyAdmin"

(* The text holds, in any letter case, require(msg.sender with nothing
   between its three parts. *)
HoldsRequireSender(text) ==
    \E i \in 1..(Len(text) - 2) :
        /\ text[i] \in {"require", "REQUIRE"}
        /\ text[i + 1] = "("
        /\ text[i + 2] = "msg.sender"

(* The same with blanks allowed before and after the parenthesis. *)
HoldsRequireSenderSpaced(text) ==
    \E i, j, k \in 1..Len(text) :
        /\ i < j /\ j < k
        /\ text[i] \in {"require", "REQUIRE"}
        /\ text[j] = "("
        /\ text[k] = "msg.sender"
        /\ \A m \in (i + 1)..(k - 1) : m # j => text[m] \in Whitespace

(* C11: the access_control tag is in the result if and only if the text
   holds, in any letter case, onlyOwner or require(msg.sender. *)
C11_AccessControlTag ==
    parser_result # None =>
        (InSeq("access_control", parser_result.patterns)
            <=> (HoldsOnlyOwner(parser_input.content)
                   \/ HoldsRequireSender(parser_input.content)))

(* C11 as amended: the tag is in the result if and only if the text holds,
   in any letter case, onlyOwner, onlyAdmin, or require, "(" and msg.sender
   in a row with nothing but blanks between them. *)
C11_AccessControlTagAmended ==
    parser_result # None =>
        (InSeq("access_control", parser_result.patterns)
            <=> (HoldsOnlyOwner(parser_input.content)
                   \/ HoldsOnlyAdmin(parser_input.content)
                   \/ HoldsRequireSenderSpaced(parser_input.content)))

(* C11, its case: a text in capitals with blanks inside the require was
   tagged. *)
C11_Witness ==
    /\ parser_result # None
    /\ parser_input.content = <<"REQUIRE", SP, "(", "msg.sender">>
    /\ InSeq("access_control", parser_result.patterns)

(***************************************************************************)
(* extract_metadata over texts of up to MaxStatements statements.           *)
(***************************************************************************)
StatementKinds == {"pragma 0.8", "pragma 0.7", "pragma without version",
                   "contract", "import"}

(* A statement of each kind; the second pragma is written with blanks of
   several kinds around its parts. *)
Statement(kind) ==
    CASE kind = "pragma 0.8" ->
            <<"pragma", SP, "solidity", SP, "^0.8.0", ";">>
      [] kind = "pragma 0.7" ->
            <<"pragma", NL2, "solidity", SP, SP, "0.7.6", SP, ";">>
      [] kind = "pragma without version" ->
            <<"pragma", SP, "solidity", ";">>
      [] kind = "contract" -> <<"contract", SP, "Foo", SP, "{", "}">>
      [] kind = "import" -> <<"import", SP, "x", ";">>

(* The version expression a statement of this kind gives, if it is a pragma
   solidity statement. *)
VersionOf(kind) ==
    CASE kind = "pragma 0.8" -> << <<"^0.8.0">> >>
      [] kind = "pragma 0.7" -> << <<"0.7.6">> >>
      [] OTHER -> <<>>

StatementTexts ==
    { [content |->
          Flatten([i \in 1..Len(kinds) |->
                      IF i = 1 THEN Statement(kinds[i])
                      ELSE <<SP>> \o Statement(kinds[i])]),
       pragmas |-> Flatten([i \in 1..Len(kinds) |-> VersionOf(kinds[i])])] :
        kinds \in SeqsUpTo(StatementKinds, MaxStatements) }

MetadataInit ==
    /\ IngestAtRest
    /\ index_exists = TRUE
    /\ store = <<>>
    /\ ChatAtRest
    /\ ConfigAtRest
    /\ PromptAtRest
    /\ ProcessAtRest
    /\ WorkersAtRest
    /\ ChatRunAtRest
    /\ RateAtRest
    /\ LaterAtRest
    /\ parser_input \in StatementTexts
    /\ parser_result = None

ExtractMetadata ==
    /\ parser_result' = [metadata |-> extract_metadata(parser_input.content)]
    /\ UNCHANGED <<parser_input, ingestVars, chatVars, configVars,
                   promptVars, processVars, workerVars, chatRunVars, rateVars, laterVars>>

MetadataNext == ExtractMetadata
SpecMetadata == MetadataInit /\ [][MetadataNext]_vars

(***************************************************************************)
(* Properties of extract_metadata.                                          *)
(***************************************************************************)
(* C12: when the text holds pragma solidity statements, the pragma of the
   result is the version expression of the first of them, without the
   blanks around it, whatever the later ones say; when it holds none, the
   pragma is None. *)
C12_FirstPragma ==
    parser_result # None =>
        LET pragma == parser_result.metadata.pragma
        IN  IF parser_input.pragmas # <<>>
            THEN pragma.found /\ pragma.value = parser_input.pragmas[1]
            ELSE ~pragma.found

(* C12, its case: a text whose second pragma differs from the first, after
   a pragma that has no version, was parsed. *)
C12_Witness ==
    /\ parser_result # None
    /\ Len(parser_input.pragmas) >= 2
    /\ parser_input.pragmas[1] = <<"0.7.6">>
    /\ parser_input.pragmas[2] = <<"^0.8.0">>
    /\ SubSeq(parser_input.content, 1, 4) = <<"pragma", SP, "solidity", ";">>

(***************************************************************************)
(* Two workers ingesting into the one index, both past their start-up.      *)
(***************************************************************************)
WorkerContents ==
    { Contract(1, <<>>),
      Contract(1, <<NL2, "blob600", NL2, "blob150", NL2, "blob600">>) }

WorkersInit ==
    /\ vector_store = TRUE
    /\ index_exists = TRUE
    /\ store = <<>>
    /\ ingest_call = NoCall
    /\ ingest_result = NoResult
    /\ ingested = {}
    /\ ChatAtRest
    /\ ConfigAtRest
    /\ PromptAtRest
    /\ ProcessAtRest
    /\ ParserAtRest
    /\ WorkersAtRest
    /\ ChatRunAtRest
    /\ RateAtRest
    /\ LaterAtRest

IngestCheck ==
    /\ \E w \in Workers, file_path \in FilePaths, content \in WorkerContents,
          fault \in {"none", "search"} :
            /\ Len(store) < MaxStored
            /\ ingest_check(w, file_path, content, fault)
    /\ UNCHANGED <<ingest_call, ingest_result, ingested, chatVars, configVars,
                   promptVars, processVars, parserVars, chatRunVars,
                   rateVars, laterVars>>

IngestInsert ==
    /\ \E w \in Workers, fault \in {"none", "add"}, upto \in 0..2 :
            ingest_insert(w, fault, upto)
    /\ UNCHANGED <<ingest_call, ingest_result, ingested, chatVars, configVars,
                   promptVars, processVars, parserVars, chatRunVars,
                   rateVars, laterVars>>

WorkersNext == IngestCheck \/ IngestInsert
SpecWorkers == WorkersInit /\ [][WorkersNext]_vars

(***************************************************************************)
(* Properties of concurrent ingestion.                                      *)
(***************************************************************************)
(* The chunk sets the store holds for the hash h of a content that splits
   into n chunks. *)
ChunkSets(h, n) == Len(FilterByHash(store, h)) \div n

(* C13: when two calls for the same content have both passed the existence
   check before either has inserted, and both inserts have gone through,
   both calls return "ingested" and the store holds the chunks of that one
   file_hash twice over. *)
C13_BothIngest ==
    \A w, o \in Workers :
        (/\ w # o
         /\ ingest_pc[w] = "idle" /\ ingest_pc[o] = "idle"
         /\ worker_call[w].raced
         /\ worker_call[o].content = worker_call[w].content
         /\ Succeeded(worker_result[w]) /\ Succeeded(worker_result[o])
         /\ worker_result[o].value.action = "ingested") =>
            /\ worker_result[w].value.action = "ingested"
            /\ worker_result[w].value.file_hash
                  = worker_result[o].value.file_hash
            /\ ChunkSets(worker_result[w].value.file_hash,
                         worker_result[w].value.chunks_added) >= 2

(* C13, its case: two calls for one content, each checked before the other
   inserted, have both returned "ingested". *)
C13_Witness ==
    \E w, o \in Workers :
        /\ w # o
        /\ ingest_pc[w] = "idle" /\ ingest_pc[o] = "idle"
        /\ worker_call[w].raced
        /\ worker_call[o].content = worker_call[w].content
        /\ IsIngested(worker_result[w]) /\ IsIngested(worker_result[o])
        /\ ChunkSets(worker_result[w].value.file_hash,
                     worker_result[w].value.chunks_added) = 2

(***************************************************************************)
(* The chatbot with several chat calls in flight: a call takes the next     *)
(* number when it begins, and the history may be cleared at any moment.     *)
(***************************************************************************)
ChatRunInit ==
    /\ IngestAtRest
    /\ index_exists = TRUE
    /\ store = process_contract_file("A.sol", ChatContract(1)).documents
    /\ ChatAtRest
    /\ ConfigAtRest
    /\ PromptAtRest
    /\ ProcessAtRest
    /\ ParserAtRest
    /\ WorkersAtRest
    /\ ChatRunAtRest
    /\ RateAtRest
    /\ LaterAtRest

ChatBegin ==
    /\ \E t \in ChatTasks, include_context \in BOOLEAN :
            /\ chat_started < MaxChats
            /\ chat_start(t, UserMessageNo(chat_started + 1), include_context,
                          "none")
            /\ chat_no' = [chat_no EXCEPT ![t] = chat_started + 1]
    /\ chat_started' = chat_started + 1
    /\ UNCHANGED <<ingest_call, ingest_result, ingested, chat_completed,
                   configVars, promptVars, processVars, parserVars,
                   workerVars, rateVars, laterVars>>

ChatEnd ==
    /\ \E t \in ChatTasks, failed \in BOOLEAN :
            /\ chat_complete(t, failed, ReplyTo(chat_call[t].user_message))
            /\ chat_completed' = IF failed THEN chat_completed
                                 ELSE Append(chat_completed, chat_no[t])
    /\ UNCHANGED <<ingest_call, ingest_result, ingested, chat_started,
                   chat_no, configVars, promptVars, processVars, parserVars,
                   workerVars, rateVars, laterVars>>

ChatClear ==
    /\ clear_conversation
    /\ chat_completed' = <<>>
    /\ UNCHANGED <<ingest_call, ingest_result, ingested, chat_started,
                   chat_no, configVars, promptVars, processVars, parserVars,
                   workerVars, rateVars, laterVars>>

ChatRunNext == ChatBegin \/ ChatEnd \/ ChatClear
SpecChatRun == ChatRunInit /\ [][ChatRunNext]_vars

(***************************************************************************)
(* Properties of chat calls in flight together.                             *)
(***************************************************************************)
(* The turn of call k as the history records it. *)
TurnOf(k) ==
    <<HumanMessage(UserMessageNo(k)), ReplyTo(UserMessageNo(k))>>

(* C14: a call's turn is appended when its completion returns: the history
   holds the turns of the calls in the order they completed, not the order
   they began, and the request of a call in flight holds nothing of a call
   that began earlier and is still in flight. *)
C14_LoggedOnCompletion ==
    /\ conversation_history =
          Flatten([i \in 1..Len(chat_completed) |-> TurnOf(chat_completed[i])])
    /\ \A t, o \in ChatTasks :
          (chat_pc[t] = "awaiting" /\ chat_pc[o] = "awaiting"
             /\ chat_no[o] < chat_no[t]) =>
                \A i \in 1..Len(full_messages[t]) :
                    full_messages[t][i] # HumanMessage(UserMessageNo(chat_no[o]))

(* C14, its case: the chat that began second is recorded before the chat
   that began first, and a third chat, begun while the first was in flight,
   is waiting on a request that holds the second's turn and not the first's. *)
C14_Witness ==
    /\ Len(chat_completed) = 2
    /\ chat_completed[1] > chat_completed[2]
    /\ conversation_history
          = TurnOf(chat_completed[1]) \o TurnOf(chat_completed[2])
    /\ \E t \in ChatTasks :
          /\ chat_pc[t] = "awaiting"
          /\ Len(full_messages[t]) = 4
          /\ SubSeq(full_messages[t], 1, 2) = TurnOf(chat_completed[1])

(* C20: however chat calls and clear_conversation interleave, the history
   has an even length and each odd entry is a user message followed at once
   by the reply given to that message. *)
C20_TurnsStayWhole ==
    /\ Len(conversation_history) % 2 = 0
    /\ \A i \in 1..Len(conversation_history) :
          i % 2 = 1 =>
             /\ conversation_history[i].role = "human"
             /\ conversation_history[i + 1]
                   = ReplyTo(conversation_history[i].content)

(* C20, its case: the turn of the third call stands whole and alone in the
   history while the first call is still in flight. *)
C20_Witness ==
    /\ conversation_history = TurnOf(3)
    /\ \E t \in ChatTasks : chat_pc[t] = "awaiting" /\ chat_no[t] = 1

(***************************************************************************)
(* check_rate_limit under a clock that never goes back; the clients have    *)
(* made some checks at time 0 already.                                      *)
(***************************************************************************)
EarlierChecks == {0, RateLimit - 2, RateLimit - 1}
Ticks == {RateWindow \div 2, RateWindow}

RateInit ==
    /\ IngestAtRest
    /\ index_exists = TRUE
    /\ store = <<>>
    /\ ChatAtRest
    /\ ConfigAtRest
    /\ PromptAtRest
    /\ ProcessAtRest
    /\ ParserAtRest
    /\ WorkersAtRest
    /\ ChatRunAtRest
    /\ LaterAtRest
    /\ clock = 0
    /\ \E n \in [Clients -> EarlierChecks] :
          /\ request_counts =
                [c \in {d \in Clients : n[d] > 0} |-> Checked(n[c])]
          /\ allowed = [c \in Clients |-> Checked(n[c])]
    /\ rate_result = [client |-> "", ok |-> TRUE]
    /\ checks_made = 0

CheckRateLimit ==
    /\ checks_made < MaxChecks
    /\ checks_made' = checks_made + 1
    /\ \E client_ip \in Clients : check_rate_limit(client_ip)
    /\ UNCHANGED <<ingestVars, chatVars, configVars, promptVars, processVars,
                   parserVars, workerVars, chatRunVars, laterVars>>

Tick ==
    /\ \E d \in Ticks : clock + d <= MaxClock /\ clock' = clock + d
    /\ UNCHANGED <<request_counts, rate_result, allowed, checks_made,
                   ingestVars, chatVars, configVars, promptVars, processVars,
                   parserVars, workerVars, chatRunVars, laterVars>>

RateNext == CheckRateLimit \/ Tick
SpecRate == RateInit /\ [][RateNext]_vars

(***************************************************************************)
(* Properties of check_rate_limit.                                          *)
(***************************************************************************)
(* The checks of client c that returned True at a time in (t - 3600, t]. *)
AllowedIn(c, t) ==
    Cardinality({i \in 1..Len(allowed[c]) :
                    allowed[c][i] > t - RateWindow /\ allowed[c][i] <= t})

(* C15: a client never has more than 100 allowed checks in an interval
   (t - 3600, t], and its list never holds more than 100 timestamps. *)
C15_AtMostLimitPerWindow ==
    /\ \A c \in DOMAIN request_counts : Len(request_counts[c]) <= RateLimit
    /\ \A c \in Clients :
          \A t \in {allowed[c][i] : i \in 1..Len(allowed[c])} \cup {clock} :
              AllowedIn(c, t) <= RateLimit

(* C15, its case: a client with more than 100 allowed checks in all was
   allowed again once the window of its first ones had passed, beside a
   client that was never seen. *)
C15_Witness ==
    /\ rate_result.ok
    /\ rate_result.client \in Clients
    /\ Len(allowed[rate_result.client]) > RateLimit
    /\ clock = RateWindow
    /\ \E c \in Clients : c \notin DOMAIN request_counts

(***************************************************************************)
(* The endpoints /upload and /search, served after a startup that has set   *)
(* the vector store.                                                        *)
(***************************************************************************)
UploadNames == { <<"A", ".sol">>, <<"C", ".EXE">>, <<"D">> }
UploadSizes == {max_file_size, max_file_size + 1}
UploadContents ==
    { Contract(1, <<>>),
      Contract(1, <<NL2, "blob600", NL2, "blob150", NL2, "blob600">>) }

UploadFiles ==
    [filename : UploadNames, size : UploadSizes, content : UploadContents,
     utf8 : BOOLEAN]

Queries == { <<>>, <<NL2, SP>>, <<SP, "owner">> }

ApiInit ==
    /\ vector_store = TRUE
    /\ index_exists = TRUE
    /\ store = <<>>
    /\ ingest_call = NoCall
    /\ ingest_result = NoResult
    /\ ingested = {}
    /\ ChatAtRest
    /\ ConfigAtRest
    /\ PromptAtRest
    /\ ProcessAtRest
    /\ ParserAtRest
    /\ WorkersAtRest
    /\ ChatRunAtRest
    /\ RateAtRest
    /\ AnalysisAtRest
    /\ ServiceAtRest
    /\ BatchAtRest
    /\ ApiAtRest

UploadContract ==
    /\ \E file \in UploadFiles, fault \in {"none"} \cup StoreFaults :
          upload_contract(file, fault)
    /\ UNCHANGED <<chatVars, configVars, promptVars, processVars, parserVars,
                   workerVars, chatRunVars, rateVars, analysisVars,
                   serviceVars,
                   batchVars>>

SearchContracts ==
    /\ \E query \in Queries, k \in 1..2, fault \in {"none", "search"} :
          search_endpoint(query, k, fault)
    /\ UNCHANGED <<chatVars, configVars, promptVars, processVars, parserVars,
                   workerVars, chatRunVars, rateVars, analysisVars,
                   serviceVars,
                   batchVars>>

ApiNext == UploadContract \/ SearchContracts
SpecApi == ApiInit /\ [][ApiNext]_vars

(***************************************************************************)
(* Properties of the endpoints.                                             *)
(***************************************************************************)
(* The upload is over the size limit or has an extension that is not
   allowed, whatever its case. *)
Invalid(file) ==
    \/ file.size > max_file_size
    \/ /\ splitext_ext(file.filename) # ".sol"
       /\ splitext_ext(file.filename) # ".SOL"
       /\ splitext_ext(file.filename) # ".txt"

(* C16: an upload over max_file_size or with an extension that is not
   allowed is rejected before ingest_contract is called, and the store is
   as the request found it. *)
C16_InvalidUploadNotIngested ==
    (api_request.endpoint = "upload" /\ Invalid(api_request.file)) =>
        /\ ~api_request.ingest_called
        /\ api_response.status # 200
        /\ store = api_request.store

(* C16, its case: over a store that holds a contract, a UTF-8 upload of a
   new contract under an allowed name, one byte over the limit, is refused. *)
C16_Witness ==
    /\ api_request.endpoint = "upload"
    /\ api_request.file.size = max_file_size + 1
    /\ api_request.file.utf8
    /\ api_request.file.filename = <<"A", ".sol">>
    /\ api_request.file.content \notin ingested
    /\ api_request.store # <<>>
    /\ ~api_request.ingest_called
    /\ store = api_request.store

(* C17: an HTTPException raised while a request is validated or its result
   is turned into a response reaches the client with its own status: 413
   for an oversized upload, 400 for an extension that is not allowed, for a
   failure result of the pipeline and for a blank search query. *)
C17_StatusAsRaised ==
    api_response.raised # 0 => api_response.status = api_response.raised

(***************************************************************************)
(* Security analyses and ingestions, one after the other, after a startup   *)
(* that has set the vector store.                                           *)
(***************************************************************************)
AnalysisContents == { <<>>, Contract(1, <<>>) }

AnalysisInit ==
    /\ vector_store = TRUE
    /\ index_exists = TRUE
    /\ store = <<>>
    /\ ingest_call = NoCall
    /\ ingest_result = NoResult
    /\ ingested = {}
    /\ ChatAtRest
    /\ ConfigAtRest
    /\ PromptAtRest
    /\ ProcessAtRest
    /\ ParserAtRest
    /\ WorkersAtRest
    /\ ChatRunAtRest
    /\ RateAtRest
    /\ ApiAtRest
    /\ ServiceAtRest
    /\ BatchAtRest
    /\ AnalysisAtRest

AnalyzeContractSecurity ==
    /\ \E contract_content \in AnalysisContents, now \in 1..2,
          fault \in {"none"} \cup StoreFaults, failing \in BOOLEAN :
            analyze_contract_security(contract_content, now, fault, failing)
    /\ UNCHANGED <<chatVars, configVars, promptVars, processVars, parserVars,
                   workerVars, chatRunVars, rateVars, apiVars, serviceVars,
                   batchVars>>

IngestAfterAnalysis ==
    /\ \E file_path \in FilePaths, content \in AnalysisContents,
          fault \in {"none"} \cup StoreFaults :
            ingest_contract(file_path, content, fault)
    /\ UNCHANGED <<chatVars, configVars, promptVars, processVars, parserVars,
                   workerVars, chatRunVars, rateVars, apiVars, serviceVars,
                   analysisVars,
                   batchVars>>

AnalysisNext == AnalyzeContractSecurity \/ IngestAfterAnalysis
SpecAnalysis == AnalysisInit /\ [][AnalysisNext]_vars

(***************************************************************************)
(* Properties of analyze_contract_security.                                 *)
(***************************************************************************)
IsSkipped(r) ==
    r.outcome = "returned" /\ r.value.success /\ r.value.action = "skipped"

(* C18: the ingestion made by analyze_contract_security is temporary: when
   the analysis has returned, the store holds what it held before, and an
   ingest_contract that is skipped has found chunks of its content that an
   ingestion under a contract's own path stored, not an analysis. *)
C18_AnalysisIsTemporary ==
    /\ ingest_call.file_path \in TempPaths => store = ingest_call.store
    /\ (ingest_call.file_path \in FilePaths /\ IsSkipped(ingest_result)) =>
          \E i \in 1..Len(ingest_call.store) :
              /\ ingest_call.store[i].metadata.file_hash =
                    generate_file_hash(ingest_call.content)
              /\ ingest_call.store[i].metadata.file_path \in FilePaths

(***************************************************************************)
(* The ingestion service from its construction on: the startup event of the *)
(* process, if it has one, and then ingestions, searches and statistics,    *)
(* with failures of the collaborator.                                       *)
(***************************************************************************)
ServiceInit ==
    /\ vector_store = FALSE
    /\ index_exists \in BOOLEAN
    /\ store = <<>>
    /\ ingest_call = NoCall
    /\ ingest_result = NoResult
    /\ ingested = {}
    /\ ChatAtRest
    /\ ConfigAtRest
    /\ PromptAtRest
    /\ ProcessAtRest
    /\ ParserAtRest
    /\ WorkersAtRest
    /\ ChatRunAtRest
    /\ RateAtRest
    /\ ApiAtRest
    /\ AnalysisAtRest
    /\ BatchAtRest
    /\ ServiceAtRest

(* An operation that would initialise is made while fewer than MaxInits
   initialisations have been attempted. *)
MayInitialise == vector_store \/ Len(inits) < MaxInits

Startup ==
    /\ service_op = NoOp
    /\ \E fault \in {"none"} \cup InitFaults : startup_event(fault)
    /\ UNCHANGED <<chatVars, configVars, promptVars, processVars, parserVars,
                   workerVars, chatRunVars, rateVars, apiVars, analysisVars,
                   batchVars>>

ServiceIngest ==
    /\ MayInitialise
    /\ \E file_path \in FilePaths, content \in AnalysisContents,
          fault \in {"none"} \cup InitFaults \cup StoreFaults :
            service_ingest(file_path, content, fault)
    /\ UNCHANGED <<chatVars, configVars, promptVars, processVars, parserVars,
                   workerVars, chatRunVars, rateVars, apiVars, analysisVars,
                   batchVars>>

ServiceSearch ==
    /\ MayInitialise
    /\ \E k \in 1..2, fault \in {"none", "search"} \cup InitFaults :
          service_search(k, fault)
    /\ UNCHANGED <<chatVars, configVars, promptVars, processVars, parserVars,
                   workerVars, chatRunVars, rateVars, apiVars, analysisVars,
                   batchVars>>

ServiceStats ==
    /\ MayInitialise
    /\ \E fault \in {"none", "stats"} \cup InitFaults :
          get_contract_stats(fault)
    /\ UNCHANGED <<chatVars, configVars, promptVars, processVars, parserVars,
                   workerVars, chatRunVars, rateVars, apiVars, analysisVars,
                   batchVars>>

ServiceNext == Startup \/ ServiceIngest \/ ServiceSearch \/ ServiceStats
SpecService == ServiceInit /\ [][ServiceNext]_vars

(***************************************************************************)
(* Properties of the lazy initialisation.                                   *)
(***************************************************************************)
Initialised == \E i \in 1..Len(inits) : inits[i] = "ok"

(* C19: a similarity search or an insert is issued only with vector_store
   set by an initialize_vector_store that succeeded; an initialisation that
   failed leaves vector_store unset, and an operation that finds it unset
   begins with an initialisation; create_index is issued only when
   list_indexes did not show the index. *)
C19_LazyInitialisation ==
    /\ \A i \in 1..Len(issued) :
          issued[i] \in {"similarity_search", "add_texts"} =>
              vector_store /\ Initialised
    /\ vector_store => Initialised
    /\ (inits # <<>> /\ inits[Len(inits)] = "failed") => ~vector_store
    /\ (service_op.name # "" /\ ~service_op.was_set) =>
          issued # <<>> /\ issued[1] = "list_indexes"
    /\ \A i \in 1..Len(issued) :
          issued[i] = "create_index" =>
              ~service_op.existed /\ i = 2 /\ issued[1] = "list_indexes"

(* C19, its case: two initialisations failed, and the ingestion that came
   next initialised again over an index that existed, without creating it,
   then searched and inserted. *)
C19_Witness ==
    /\ inits = <<"failed", "failed", "ok">>
    /\ service_op.name = "ingest"
    /\ service_op.existed
    /\ issued = <<"list_indexes", "connect", "similarity_search", "add_texts">>
    /\ store # <<>>

(***************************************************************************)
(* Properties of a chat call that fails.                                    *)
(***************************************************************************)
(* Task t sends its request in this step. *)
SendsRequest(t) == chat_pc[t] = "idle" /\ chat_pc'[t] = "awaiting"

(* Task t returns success == False in this step: its prompt could not be
   formatted, or the completion it was waiting for failed. *)
ReturnsFailure(t) ==
    /\ bot_op' = "chat"
    /\ chat_pc'[t] = "idle"
    /\ chat_result'[t] = ChatFailure
    /\ \/ chat_pc[t] = "awaiting"
       \/ chat_call'[t] # chat_call[t]

(* C21: a chat call that returns success == False records nothing: the
   history is the same after the step that sends its request and after the
   step in which it returns the failure. *)
C21_FailedChatRecordsNothing ==
    [][\A t \in ChatTasks :
          (SendsRequest(t) \/ ReturnsFailure(t)) =>
              conversation_history' = conversation_history]_vars

(* C21, its case: the completion of a call failed over a history that held
   a turn, and the call has returned success == False. *)
C21_Witness ==
    /\ chat_pc[1] = "idle"
    /\ chat_call[1].completion = "failed"
    /\ chat_result[1] = ChatFailure
    /\ conversation_history # <<>>

(***************************************************************************)
(* Properties of clear_conversation beside chat calls in flight.            *)
(***************************************************************************)
(* C22: clear_conversation cancels no call in flight: when no call is in
   flight any more, the history holds the turns of the calls that completed
   after the last reset, those that had sent their request before it
   included, and nothing else; it is not empty if there was such a call. *)
C22_ClearCancelsNothing ==
    (\A t \in ChatTasks : chat_pc[t] = "idle") =>
        /\ Len(conversation_history) = 2 * Len(chat_completed)
        /\ \A i \in 1..Len(chat_completed) :
              SubSeq(conversation_history, 2 * i - 1, 2 * i)
                 = TurnOf(chat_completed[i])
        /\ chat_completed # <<>> => conversation_history # <<>>

(* C22, its case: the first call was in flight while the third began,
   succeeded and was cleared away; it completed after the reset, and its
   turn is all the history holds. *)
C22_Witness ==
    /\ \A t \in ChatTasks : chat_pc[t] = "idle"
    /\ \E a, b \in ChatTasks :
          /\ chat_no[a] = 1
          /\ chat_no[b] = 3
          /\ chat_result[b].success
    /\ chat_completed = <<1>>
    /\ conversation_history = TurnOf(1)
    /\ bot_op = "chat"

(***************************************************************************)
(* Properties of what an ingestion reports.                                 *)
(***************************************************************************)
(* C23: a call that returns action "ingested" has added at least one chunk
   that carries its file_hash, whatever the content, so the next existence
   check finds the hash. *)
C23_IngestedAddsAChunk ==
    IsIngested(ingest_result) =>
        /\ ingest_result.value.chunks_added >= 1
        /\ Len(store) > Len(ingest_call.store)
        /\ FilterByHash(store, ingest_result.value.file_hash) # <<>>

(***************************************************************************)
(* Batches of contracts ingested by a service that has just been built.     *)
(***************************************************************************)
BatchContracts == [file_path : FilePaths, content : AnalysisContents]
Batches == UNION {[1..n -> BatchContracts] : n \in 0..MaxBatch}

BatchInit ==
    /\ IngestAtRest
    /\ index_exists = TRUE
    /\ store = <<>>
    /\ ChatAtRest
    /\ ConfigAtRest
    /\ PromptAtRest
    /\ ProcessAtRest
    /\ ParserAtRest
    /\ WorkersAtRest
    /\ ChatRunAtRest
    /\ RateAtRest
    /\ ApiAtRest
    /\ AnalysisAtRest
    /\ ServiceAtRest
    /\ BatchAtRest

IngestMultipleContracts ==
    /\ \E contracts \in Batches : ingest_multiple_contracts(contracts)
    /\ UNCHANGED <<chatVars, configVars, promptVars, processVars, parserVars,
                   workerVars, chatRunVars, rateVars, apiVars, analysisVars,
                   serviceVars>>

IngestNextContract ==
    /\ \E fault \in {"none", "connect"} \cup StoreFaults :
          ingest_next_contract(fault)
    /\ UNCHANGED <<chatVars, configVars, promptVars, processVars, parserVars,
                   workerVars, chatRunVars, rateVars, apiVars, analysisVars,
                   serviceVars>>

BatchNext == IngestMultipleContracts \/ IngestNextContract
SpecBatch == BatchInit /\ [][BatchNext]_vars

(***************************************************************************)
(* Properties of ingest_multiple_contracts.                                 *)
(***************************************************************************)
StoredBefore(content) ==
    FilterByHash(batch_call.store, generate_file_hash(content)) # <<>>

(* C24: ingest_multiple_contracts returns one result per contract, in the
   order of the contracts: a content that was not stored before and comes
   more than once is "ingested" at its first place and "skipped" at every
   later one, and a result with success False does not keep the contracts
   after it from being ingested. *)
C24_OneResultPerContract ==
    batch_outcome = "returned" =>
          LET contracts == batch_call.contracts
          IN  /\ Len(results) = Len(contracts)
              /\ \A i \in 1..Len(results) :
                    results[i].success =>
                        results[i].file_hash
                           = generate_file_hash(contracts[i].content)
              /\ \A i, j \in 1..Len(results) :
                    (/\ i < j
                     /\ contracts[i].content = contracts[j].content
                     /\ ~StoredBefore(contracts[i].content)
                     /\ \A k \in 1..(i - 1) :
                           contracts[k].content # contracts[i].content
                     /\ results[i].success
                     /\ results[j].success) =>
                        /\ results[i].action = "ingested"
                        /\ results[j].action = "skipped"

(***************************************************************************)
(* Properties of what check_rate_limit leaves alone.                        *)
(***************************************************************************)
(* The timestamps of `times` that are within the window at time `now`. *)
Unexpired(times, now) ==
    SelectSeq(times, LAMBDA req_time : req_time > now - RateWindow)

(* C25: a check that returns False adds no timestamp, it leaves of the
   client's list what has not expired; and a check for one client leaves
   every other client's entry as it was. *)
C25_RefusedLeavesNoTrace ==
    [][checks_made' # checks_made =>
          LET client_ip == rate_result'.client
          IN  /\ ~rate_result'.ok =>
                    request_counts'[client_ip]
                       = Unexpired(times_of(client_ip), clock)
              /\ \A other \in Clients \ {client_ip} :
                    /\ other \in DOMAIN request_counts'
                          <=> other \in DOMAIN request_counts
                    /\ other \in DOMAIN request_counts =>
                          request_counts'[other] = request_counts[other]]_vars

(* C25, its case: a client at its limit has been refused, and the list of
   another client, which holds timestamps, is there beside it. *)
C25_Witness ==
    /\ ~rate_result.ok
    /\ Len(request_counts[rate_result.client]) = RateLimit
    /\ \E other \in Clients \ {rate_result.client} :
          /\ other \in DOMAIN request_counts
          /\ request_counts[other] # <<>>
          /\ Len(request_counts[other]) < RateLimit

====
